---- MODULE Spec2Model ----
(***************************************************************************)
(* Slide15: the sliding-puzzle solver of src/solver.js (PuzzleSolver,      *)
(* PriorityQueue) as a state machine.                                      *)
(*                                                                         *)
(* Boards are sequences of size*size cells in row-major order; the code's  *)
(* 0-based index i is position i+1 of the sequence (At(board, i)).         *)
(***************************************************************************)
EXTENDS Integers, Sequences, FiniteSets, TLC

VARIABLES
    size,           \* this.size (constructor argument)
    initialBoard,   \* solve's initialBoard argument / the board a walk starts from
    targetBoard,    \* solve's targetBoard argument
    goalPositions,  \* this.goalPositions (instance field written by aStarAsync)
    cur,            \* a compact state reached from initialBoard by legal slides
    depth,          \* number of slides that led from initialBoard to cur
    progressCallback, \* TRUE when solve was given a progress observer
    pc,             \* where the solve invocation stands
    outcome,        \* what solve returned or threw, once settled
    tiers,          \* per search tier: idle, running, or how it ended
    events,         \* whether the observer was called, and the events of its last call
    openSet,        \* aStarAsync: PriorityQueue.elements
    closedSet,      \* aStarAsync: closedSet (state keys)
    cameFrom,       \* aStarAsync: cameFrom (key -> {state, move})
    gScore,         \* aStarAsync: gScore (key -> moves so far)
    iterations,     \* aStarAsync / guidedBFS: iterations
    initialHeuristic, \* aStarAsync: initialHeuristic
    threshold,      \* idaStarAsync: threshold
    iteration,      \* idaStarAsync: iteration
    idaStack,       \* idaSearch: the frames of the calls in progress
    idaCall,        \* idaSearch: arguments of the call about to be entered
    idaResult,      \* idaStarAsync: result of the finished idaSearch
    idaVisited,     \* idaSearch: visited
    queue,          \* guidedBFS: PriorityQueue.elements
    bfsVisited,     \* guidedBFS: visited
    bestHeuristic,  \* guidedBFS: bestHeuristic
    pq,             \* a PriorityQueue used on its own: its elements
    taken,          \* what the last dequeue or peek on it returned
    enqueued,       \* number of enqueue calls made on it
    walked,         \* the moves of a walk whose moves are kept, in order
    typed,          \* validateBoardInput: the fields of the text it was given
    validated,      \* validateBoardInput: what the call returned or threw
    converted,      \* boardToCompactState called on its own: what the call did
    puzzle,         \* the page's Puzzle: size, board, emptyPos, moveCount
    game,           \* PuzzleGame: startTime, gameInProgress, initialState,
                    \* hasUserInteracted
    timers,         \* number of timers of resetPuzzle that have not fired yet
    sinceReset,     \* Reset was pressed and the player has done nothing since
    acts,           \* button presses and slides of the player so far
    pruned,         \* the values idaSearch has returned at `if (f > threshold)
                    \* return f` since idaStarAsync last called it on start
    sinceYield,     \* the number of calls of idaSearch entered since the last
                    \* timer idaStarAsync or idaSearch waited for
    heap            \* the arrays in memory by address, the states the calls
                    \* made on them have returned, and the number of calls

walkVars == <<cur, depth>>

astarVars == <<openSet, closedSet, cameFrom, gScore, initialHeuristic>>

idaVars == <<threshold, iteration, idaStack, idaCall, idaResult, idaVisited, pruned,
             sinceYield>>

bfsVars == <<queue, bfsVisited, bestHeuristic>>

solveVars == <<progressCallback, pc, outcome, tiers, events, iterations,
               astarVars, idaVars, bfsVars>>

pqVars == <<pq, taken, enqueued>>

\* what neither solve nor the walks that keep no move list touch
callVars == <<typed, validated, converted, heap>>

apartVars == <<pqVars, walked, callVars>>

gameVars == <<puzzle, game, timers, sinceReset, acts>>

vars == <<size, initialBoard, targetBoard, goalPositions, walkVars, solveVars,
          apartVars, gameVars>>

(***************************************************************************)
(* Bounds of the model.                                                    *)
(***************************************************************************)
MaxWalk == 7        \* slides explored from a walk's first board
MaxDescent == 26    \* slides explored by the descent towards the target
MaxEnqueued == 5     \* enqueue calls made on the queue used on its own
MaxPriority == 2     \* its priorities are 0..MaxPriority
MaxFields == 5

\* moves of one call of Puzzle.shuffle (the source's default is 100)
MaxShuffle == 3

\* button presses and slides of the player in one behaviour
MaxActs == 4       \* fields of a text given to validateBoardInput
MaxOptimal == 21    \* slides explored by the reference walk of SpecOptimal

(***************************************************************************)
(* Arithmetic helpers.                                                     *)
(***************************************************************************)
Abs(x) == IF x < 0 THEN 0 - x ELSE x

\* the element of a one-element set; Only({e(x) : x \in {v}}) computes v once
\* and then e from its value
Only(S) == CHOOSE x \in S : TRUE

RECURSIVE SumTo(_, _)
\* f[0] + ... + f[n-1]
SumTo(f, n) == IF n = 0 THEN 0 ELSE f[n - 1] + SumTo(f, n - 1)

totalCells == size * size

At(board, i) == board[i + 1]

RowOf(i) == i \div size
ColOf(i) == i % size

(***************************************************************************)
(* Valid boards: permutations of 0..n*n-1.                                 *)
(***************************************************************************)
Boards(n) ==
    {b \in [1..(n * n) -> 0..(n * n - 1)] :
        \A i, j \in 1..(n * n) : i # j => b[i] # b[j]}

\* 1, 2, ..., n*n-1 followed by the blank
SolvedBoard(n) == [i \in 1..(n * n) |-> IF i = n * n THEN 0 ELSE i]

\* the solved board with its last two tiles exchanged
SwappedBoard(n) ==
    [i \in 1..(n * n) |->
        IF i = n * n THEN 0
        ELSE IF i = n * n - 1 THEN n * n - 2
        ELSE IF i = n * n - 2 THEN n * n - 1
        ELSE i]

IsValidBoard(b, n) ==
    /\ DOMAIN b = 1..(n * n)
    /\ \A v \in 0..(n * n - 1) : \E i \in 1..(n * n) : b[i] = v

(***************************************************************************)
(* PuzzleSolver: state codec.                                              *)
(***************************************************************************)
NoMove == [from |-> <<-1, -1>>, to |-> <<-1, -1>>, value |-> -1, direction |-> "none"]

\* index of the first zero of the array, -1 when there is none
FirstZero(boardArray) ==
    IF \E i \in 1..Len(boardArray) : boardArray[i] = 0
    THEN (CHOOSE i \in 1..Len(boardArray) :
              /\ boardArray[i] = 0
              /\ \A j \in 1..(i - 1) : boardArray[j] # 0) - 1
    ELSE -1

boardToCompactState(boardArray) ==
    [board |-> boardArray, emptyIndex |-> FirstZero(boardArray), lastMove |-> NoMove]

\* directions with the cell below the blank tried before the cell above it
directions_BelowFirst ==
    << [row |-> 1, col |-> 0, name |-> "up"],
       [row |-> -1, col |-> 0, name |-> "down"],
       [row |-> 0, col |-> -1, name |-> "right"],
       [row |-> 0, col |-> 1, name |-> "left"] >>

directions ==
    << [row |-> -1, col |-> 0, name |-> "down"],
       [row |-> 1, col |-> 0, name |-> "up"],
       [row |-> 0, col |-> -1, name |-> "right"],
       [row |-> 0, col |-> 1, name |-> "left"] >>

OnBoard(r, c) == r >= 0 /\ r < size /\ c >= 0 /\ c < size

\* NeighborIn with from and to exchanged: the move of the blank
NeighborIn_BlankMotion(state, dir) ==
    LET emptyIndex == state.emptyIndex
        emptyRow == RowOf(emptyIndex)
        emptyCol == ColOf(emptyIndex)
        newRow == emptyRow + dir.row
        newCol == emptyCol + dir.col
        tileIndex == newRow * size + newCol
        tileValue == At(state.board, tileIndex)
        newBoard == [i \in 1..Len(state.board) |->
                        IF i = emptyIndex + 1 THEN tileValue
                        ELSE IF i = tileIndex + 1 THEN 0
                        ELSE state.board[i]]
    IN  [board |-> newBoard,
         emptyIndex |-> tileIndex,
         lastMove |-> [from |-> <<emptyRow, emptyCol>>,
                       to |-> <<newRow, newCol>>,
                       value |-> tileValue,
                       direction |-> dir.name]]

\* the successor built in the loop body for one direction
NeighborIn(state, dir) ==
    LET emptyIndex == state.emptyIndex
        emptyRow == RowOf(emptyIndex)
        emptyCol == ColOf(emptyIndex)
        newRow == emptyRow + dir.row
        newCol == emptyCol + dir.col
        tileIndex == newRow * size + newCol
        tileValue == At(state.board, tileIndex)
        newBoard == [i \in 1..Len(state.board) |->
                        IF i = emptyIndex + 1 THEN tileValue
                        ELSE IF i = tileIndex + 1 THEN 0
                        ELSE state.board[i]]
    IN  [board |-> newBoard,
         emptyIndex |-> tileIndex,
         lastMove |-> [from |-> <<newRow, newCol>>,
                       to |-> <<emptyRow, emptyCol>>,
                       value |-> tileValue,
                       direction |-> dir.name]]

getNeighborsOptimized(state) ==
    LET emptyRow == RowOf(state.emptyIndex)
        emptyCol == ColOf(state.emptyIndex)
        onBoard == SelectSeq(directions,
                       LAMBDA d : OnBoard(emptyRow + d.row, emptyCol + d.col))
    IN  [k \in 1..Len(onBoard) |-> NeighborIn(state, onBoard[k])]

(***************************************************************************)
(* PuzzleSolver: goal positions and heuristics.                            *)
(***************************************************************************)
NoPos == [row |-> -1, col |-> -1]

\* the array aStarAsync stores in this.goalPositions: index 0 stays a hole
GoalPositionsOf(board) ==
    [value \in 0..(Len(board) - 1) |->
        IF value = 0 THEN NoPos
        ELSE LET i == (CHOOSE k \in 1..Len(board) : board[k] = value) - 1
             IN  [row |-> RowOf(i), col |-> ColOf(i)]]

HasGoalPos(gp, value) == value \in DOMAIN gp /\ gp[value] # NoPos

\* the Manhattan term of one cell
CellDistance(gp, state, i) ==
    LET value == At(state.board, i)
    IN  IF value = 0 \/ ~HasGoalPos(gp, value) THEN 0
        ELSE Abs(RowOf(i) - gp[value].row) + Abs(ColOf(i) - gp[value].col)

\* pairs counted by the row loop: cell i in its goal row, a cell to its right
\* in the same row whose goal is in that row at a smaller column
RowConflicts(gp, state) ==
    {<<i, j>> \in (0..(totalCells - 1)) \X (0..(size - 1)) :
        LET value == At(state.board, i) IN
        /\ value # 0
        /\ HasGoalPos(gp, value)
        /\ RowOf(i) = gp[value].row
        /\ j >= ColOf(i) + 1
        /\ LET otherValue == At(state.board, RowOf(i) * size + j) IN
           /\ otherValue # 0
           /\ HasGoalPos(gp, otherValue)
           /\ gp[otherValue].row = RowOf(i)
           /\ gp[otherValue].col < gp[value].col}

ColConflicts(gp, state) ==
    {<<i, j>> \in (0..(totalCells - 1)) \X (0..(size - 1)) :
        LET value == At(state.board, i) IN
        /\ value # 0
        /\ HasGoalPos(gp, value)
        /\ ColOf(i) = gp[value].col
        /\ j >= RowOf(i) + 1
        /\ LET otherValue == At(state.board, j * size + ColOf(i)) IN
           /\ otherValue # 0
           /\ HasGoalPos(gp, otherValue)
           /\ gp[otherValue].col = ColOf(i)
           /\ gp[otherValue].row < gp[value].row}

\* enhancedHeuristic reading the goal positions gp from this.goalPositions
HeuristicWith(gp, state) ==
    LET distance == SumTo([i \in 0..(totalCells - 1) |-> CellDistance(gp, state, i)],
                          totalCells)
        conflicts == Cardinality(RowConflicts(gp, state))
                     + Cardinality(ColConflicts(gp, state))
    IN  distance + (conflicts * 2)

enhancedHeuristic(state) == HeuristicWith(goalPositions, state)

fastHeuristic(state) ==
    SumTo([i \in 0..(totalCells - 1) |-> CellDistance(goalPositions, state, i)],
          totalCells)

(***************************************************************************)
(* PuzzleSolver.isSolvable                                                 *)
(***************************************************************************)

\* isSolvable without the blank-row rule of even sizes
isSolvable_InversionsOnly(boardArray) ==
    LET n == Len(boardArray)
        inversions == Cardinality({<<i, j>> \in (1..n) \X (1..n) :
                          /\ i < j
                          /\ boardArray[i] # 0
                          /\ boardArray[j] # 0
                          /\ boardArray[i] > boardArray[j]})
    IN  inversions % 2 = 0

isSolvable(boardArray) ==
    LET n == Len(boardArray)
        zeros == {i \in 1..n : boardArray[i] = 0}
        \* the loop overwrites emptyRow at every zero: the last one stays
        emptyRow == IF zeros = {} THEN 0
                    ELSE RowOf((CHOOSE i \in zeros : \A j \in zeros : j <= i) - 1)
        inversions == Cardinality({<<i, j>> \in (1..n) \X (1..n) :
                          /\ i < j
                          /\ boardArray[i] # 0
                          /\ boardArray[j] # 0
                          /\ boardArray[i] > boardArray[j]})
        emptyRowFromBottom == size - emptyRow
    IN  IF size % 2 = 0
        THEN IF emptyRowFromBottom % 2 = 0
             THEN inversions % 2 = 1
             ELSE inversions % 2 = 0
        ELSE inversions % 2 = 0

(***************************************************************************)
(* PuzzleSolver.stateToNumber.  The key is a JavaScript number; it is      *)
(* kept here as three limbs in base 2^24, least significant first, since   *)
(* 16^9 is beyond 32-bit integers.  A JavaScript number is an IEEE 754      *)
(* double: every `result += ...` of the loop rounds the exact sum to 53     *)
(* significant bits, ties to even (RoundDouble).  The factors are exact:    *)
(* multiplier is a power of two and board[i] * multiplier has at most five  *)
(* significant bits for cells below 32.                                     *)
(***************************************************************************)
LimbBase == 4096 * 4096

Pow16(e) == 16 ^ e

Pow2(e) == 2 ^ e

MantissaBits == 53

\* number of significant bits of a limb
BitLen(v) == CHOOSE p \in 0..31 : v < Pow2(p) /\ (p = 0 \/ v >= Pow2(p - 1))

\* the limbs with their carries propagated
Carried(raw) ==
    LET c1 == raw[1] \div LimbBase
        c2 == (raw[2] + c1) \div LimbBase
    IN  << raw[1] % LimbBase, (raw[2] + c1) % LimbBase, raw[3] + c2 >>

\* the double nearest to the integer x (ties to even): x itself when it is
\* below 2^53 (its third limb below 2^5), else x with the bits beyond its 53
\* most significant ones rounded away (fewer than 24, all in the first limb)
RoundDouble(x) ==
    IF x[3] < Pow2(MantissaBits - 48) THEN x
    ELSE LET unit == Pow2(48 + BitLen(x[3]) - MantissaBits)
             low == x[1] % unit
             keptOdd == (x[1] \div unit) % 2 = 1
             up == low * 2 > unit \/ (low * 2 = unit /\ keptOdd)
         IN  Carried([x EXCEPT ![1] = @ - low + (IF up THEN unit ELSE 0)])

\* result + digit * 16^k as the double addition computes it
NumAddScaled(result, digit, k) ==
    LET li == (k \div 6) + 1
    IN  Only({RoundDouble(sum) :
                  sum \in {Carried([result EXCEPT ![li] = @ + digit * Pow16(k % 6)])}})

RECURSIVE KeyLoop(_, _, _, _)
\* the passes of the loop for i from hi down to lo, one after the other,
\* result being the sum so far
KeyLoop(board, hi, lo, result) ==
    IF hi < lo THEN result
    ELSE IF hi = lo
    THEN NumAddScaled(result, At(board, hi), Len(board) - 1 - hi)
    ELSE Only({KeyLoop(board, ((hi + lo) \div 2), lo, sum) :
                   sum \in {KeyLoop(board, hi, ((hi + lo) \div 2) + 1, result)}})

stateToNumber(state) == KeyLoop(state.board, totalCells - 1, 0, <<0, 0, 0>>)

(***************************************************************************)
(* PriorityQueue: elements is a list of {item, priority}.                  *)
(***************************************************************************)
\* enqueue with `<=` in place of `<` in the comparison of priorities
enqueue_BeforeEquals(elements, item, priority) ==
    LET queueElement == [item |-> item, priority |-> priority]
        before == {i \in 1..Len(elements) : priority <= elements[i].priority}
    IN  IF before = {} THEN Append(elements, queueElement)
        ELSE LET i == CHOOSE x \in before : \A y \in before : x <= y
             IN  SubSeq(elements, 1, i - 1) \o <<queueElement>>
                 \o SubSeq(elements, i, Len(elements))

enqueue(elements, item, priority) ==
    LET queueElement == [item |-> item, priority |-> priority]
        before == {i \in 1..Len(elements) : priority < elements[i].priority}
    IN  IF before = {} THEN Append(elements, queueElement)
        ELSE LET i == CHOOSE x \in before : \A y \in before : x <= y
             IN  SubSeq(elements, 1, i - 1) \o <<queueElement>>
                 \o SubSeq(elements, i, Len(elements))

\* dequeue: the list after shift(); the item it returns is peek's
dequeue(elements) == IF elements = <<>> THEN <<>> ELSE Tail(elements)

NoItem == [board |-> <<>>, emptyIndex |-> -1, lastMove |-> NoMove]

peek(elements) == IF elements = <<>> THEN NoItem ELSE elements[1].item

\* what dequeue returns: this.elements.shift()?.item
shifted(elements) == IF elements = <<>> THEN NoItem ELSE Head(elements).item

(***************************************************************************)
(* Maps (JavaScript Map) as functions over the keys set so far.            *)
(***************************************************************************)
EmptyMap == [k \in {} |-> 0]

\* m.set(k, v): the entry for k is v, the other entries are those of m
MapSet(m, k, v) == (k :> v) @@ m

(***************************************************************************)
(* PuzzleSolver.reconstructPath and applyMoves                             *)
(***************************************************************************)
RECURSIVE PathLoop(_, _, _)
\* the while loop: path is what has been unshifted so far
PathLoop(cf, currentKey, path) ==
    IF currentKey \in DOMAIN cf
    THEN Only({PathLoop(cf, prevKey, unshifted) :
                   prevKey \in {stateToNumber(cf[currentKey].state)},
                   unshifted \in {IF cf[currentKey].move # NoMove
                                  THEN <<cf[currentKey].move>> \o path ELSE path}})
    ELSE path

\* reconstructPath starting from the predecessor of current: the move that
\* led to current is left out
reconstructPath_FromPredecessor(cf, current) ==
    LET currentKey == stateToNumber(current)
    IN  IF currentKey \in DOMAIN cf
        THEN PathLoop(cf, stateToNumber(cf[currentKey].state), <<>>)
        ELSE <<>>

reconstructPath(cf, current) ==
    Only({PathLoop(cf, currentKey, <<>>) : currentKey \in {stateToNumber(current)}})

\* currentBoard after one move of applyMoves' loop
ApplyMove(currentBoard, move) ==
    LET fromIndex == move.from[1] * size + move.from[2]
        toIndex == move.to[1] * size + move.to[2]
    IN  [i \in 1..Len(currentBoard) |->
            IF i = fromIndex + 1 THEN 0
            ELSE IF i = toIndex + 1 THEN move.value
            ELSE currentBoard[i]]

RECURSIVE ApplyLoop_FromFirst(_, _, _)
\* ApplyLoop with every move applied to the first board, not to the board
\* the moves before it led to
ApplyLoop_FromFirst(currentBoard, moves, states) ==
    IF moves = <<>> THEN states
    ELSE Only({ApplyLoop_FromFirst(currentBoard, Tail(moves),
                                   Append(states, boardToCompactState(nextBoard))) :
                   nextBoard \in {ApplyMove(currentBoard, Head(moves))}})

RECURSIVE ApplyLoop(_, _, _)
ApplyLoop(currentBoard, moves, states) ==
    IF moves = <<>> THEN states
    ELSE Only({ApplyLoop(nextBoard, Tail(moves),
                         Append(states, boardToCompactState(nextBoard))) :
                   nextBoard \in {ApplyMove(currentBoard, Head(moves))}})

applyMoves(board, moves) ==
    ApplyLoop(board, moves, <<boardToCompactState(board)>>)

(***************************************************************************)
(* PuzzleSolver.solve: the orchestrator and its three tiers.               *)
(*                                                                         *)
(* pc follows the invocation through the code.  A wall-clock reading       *)
(* (Date.now() - startTime > maxTime) is a choice the host makes: every    *)
(* place that compares it is a choice between "over" and "not over".       *)
(* A step of aStarAsync runs from one await to the next; guidedBFS and     *)
(* idaSearch are followed one loop pass, respectively one call, at a time. *)
(***************************************************************************)
maxIterations == 8000
progressInterval == 25
maxStates == 60000
Infinity == 1000000

start == boardToCompactState(initialBoard)
goal == boardToCompactState(targetBoard)

Pending == [kind |-> "pending", moves |-> <<>>, message |-> ""]
Returned(moves) == [kind |-> "returned", moves |-> moves, message |-> ""]
Thrown(message) == [kind |-> "thrown", moves |-> <<>>, message |-> message]

\* a progress event whose progress field is the numerator alone, the
\* division by the iteration limit left out
Event_Undivided(status, num, den) ==
    [status |-> status, num |-> num, den |-> IF den = 0 THEN 0 ELSE 1]

\* a progress event; den = 0 when the event carries no progress field,
\* otherwise progress = num / den
Event(status, num, den) == [status |-> status, num |-> num, den |-> den]

\* the observer is told the events es (if there is an observer)
Notify(es) ==
    events' = IF progressCallback THEN [called |-> TRUE, batch |-> es] ELSE events

NoCall == [state |-> NoItem, g |-> -1]
NoResult == [isPath |-> FALSE, moves |-> <<>>, value |-> -1]

ClearAStar ==
    /\ openSet' = <<>>
    /\ closedSet' = {}
    /\ cameFrom' = EmptyMap
    /\ gScore' = EmptyMap
    /\ initialHeuristic' = 0

ClearIda ==
    /\ threshold' = 0
    /\ iteration' = 0
    /\ idaStack' = <<>>
    /\ idaCall' = NoCall
    /\ idaResult' = NoResult
    /\ idaVisited' = {}
    /\ pruned' = {}
    /\ sinceYield' = 0

\* Puzzle's constructor, which ends with setupSolvedBoard
NewPuzzle(n) ==
    [size |-> n,
     board |-> [row \in 1..n |-> [col \in 1..n |->
                   LET number == (row - 1) * n + (col - 1) + 1
                   IN  IF number = n * n THEN 0 ELSE number]],
     emptyPos |-> [row |-> n - 1, col |-> n - 1],
     moveCount |-> 0]

\* no page is open: a Puzzle and the fields of PuzzleGame as their
\* constructors leave them
GameIdle ==
    /\ puzzle = NewPuzzle(4)
    /\ game = [startTime |-> "null", gameInProgress |-> FALSE,
               initialState |-> <<>>, hasUserInteracted |-> FALSE]
    /\ timers = 0
    /\ sinceReset = FALSE
    /\ acts = 0

\* validateBoardInput was not called
NotCalled == [kind |-> "none", numbers |-> <<>>, message |-> ""]

\* memory as the caller of the solver holds it: its initialBoard array at
\* address 1 and its targetBoard array at address 2, no state returned yet
CallerHeap == [mem |-> <<initialBoard, targetBoard>>, held |-> <<>>, calls |-> 0]

\* a PriorityQueue as its constructor leaves it, nothing taken from it yet
NewQueue ==
    /\ pq = <<>>
    /\ taken = NoItem
    /\ enqueued = 0

\* the solver has no invocation in progress
SolverIdle ==
    /\ NewQueue
    /\ walked = <<>>
    /\ typed = <<>>
    /\ validated = NotCalled
    /\ converted = [kind |-> "none"]
    /\ heap = CallerHeap
    /\ progressCallback = FALSE
    /\ pc = "walk"
    /\ outcome = Pending
    /\ tiers = [astar |-> "idle", ida |-> "idle", bfs |-> "idle"]
    /\ events = [called |-> FALSE, batch |-> <<>>]
    /\ openSet = <<>>
    /\ closedSet = {}
    /\ cameFrom = EmptyMap
    /\ gScore = EmptyMap
    /\ iterations = 0
    /\ initialHeuristic = 0
    /\ threshold = 0
    /\ iteration = 0
    /\ idaStack = <<>>
    /\ idaCall = NoCall
    /\ idaResult = NoResult
    /\ idaVisited = {}
    /\ pruned = {}
    /\ sinceYield = 0
    /\ queue = <<>>
    /\ bfsVisited = {}
    /\ bestHeuristic = 0


\* Solve with the announcement made before the solvability test
Solve_AnnounceFirst ==
    /\ pc = "idle"
    /\ Notify(<<Event("Trying A* algorithm...", 5, 1)>>)
    /\ IF ~isSolvable(initialBoard)
       THEN /\ outcome' = Thrown("This puzzle configuration cannot be solved.")
            /\ pc' = "done"
       ELSE /\ pc' = "aStarAsync"
            /\ UNCHANGED outcome
    /\ UNCHANGED <<size, initialBoard, targetBoard, goalPositions, apartVars, gameVars,
                   walkVars,
                   progressCallback, tiers, iterations, astarVars, idaVars, bfsVars>>

\* solve, up to the call of aStarAsync
Solve ==
    /\ pc = "idle"
    /\ IF ~isSolvable(initialBoard)
       THEN /\ outcome' = Thrown("This puzzle configuration cannot be solved.")
            /\ pc' = "done"
            /\ UNCHANGED events
       ELSE /\ Notify(<<Event("Trying A* algorithm...", 5, 1)>>)
            /\ pc' = "aStarAsync"
            /\ UNCHANGED outcome
    /\ UNCHANGED <<size, initialBoard, targetBoard, goalPositions, apartVars, gameVars,
                   walkVars,
                   progressCallback, tiers, iterations, astarVars, idaVars, bfsVars>>

(***************************************************************************)
(* aStarAsync                                                              *)
(***************************************************************************)
\* aStarAsync up to its while loop
AStarStart ==
    /\ pc = "aStarAsync"
    /\ LET gp == GoalPositionsOf(targetBoard)
           h0 == HeuristicWith(gp, start)
       IN  /\ goalPositions' = gp
           /\ initialHeuristic' = h0
           /\ openSet' = enqueue(<<>>, start, h0)
           /\ gScore' = MapSet(EmptyMap, stateToNumber(start), 0)
           /\ Notify(<<Event("A* search in progress...", 0, 0)>>)
    /\ closedSet' = {}
    /\ cameFrom' = EmptyMap
    /\ iterations' = 0
    /\ tiers' = [tiers EXCEPT !.astar = "running"]
    /\ pc' = "astarLoop"
    /\ UNCHANGED <<size, initialBoard, targetBoard, apartVars, gameVars,
                   walkVars, progressCallback,
                   outcome, idaVars, bfsVars>>

RECURSIVE AStarRelax_NoPruning(_, _, _, _, _, _)
\* AStarRelax without the test of tentativeGScore + heuristic against maxDepth
AStarRelax_NoPruning(neighbors, k, current, currentGScore, closed, acc) ==
    IF k > Len(neighbors) THEN acc
    ELSE LET tentativeGScore == currentGScore + 1
             Body(neighbor, neighborKey, heuristic) ==
                 IF \/ neighborKey \in closed
                    \/ ~ \/ neighborKey \notin DOMAIN acc.gScore
                         \/ tentativeGScore < acc.gScore[neighborKey]
                 THEN acc
                 ELSE [cameFrom |-> MapSet(acc.cameFrom, neighborKey,
                                       [state |-> current, move |-> neighbor.lastMove]),
                       gScore |-> MapSet(acc.gScore, neighborKey, tentativeGScore),
                       openSet |-> enqueue(acc.openSet, neighbor,
                                           tentativeGScore + heuristic)]
         IN  Only({AStarRelax_NoPruning(neighbors, k + 1, current, currentGScore,
                                        closed, next) :
                       next \in {Body(n, nk, h) :
                                     n \in {neighbors[k]},
                                     nk \in {stateToNumber(neighbors[k])},
                                     h \in {enhancedHeuristic(neighbors[k])}}})

RECURSIVE AStarRelax(_, _, _, _, _, _)
\* the for loop over the neighbors from index k on; acc holds cameFrom,
\* gScore and the open set as they stand
AStarRelax(neighbors, k, current, currentGScore, closed, acc) ==
    IF k > Len(neighbors) THEN acc
    ELSE LET tentativeGScore == currentGScore + 1
             maxDepth == initialHeuristic + 15
             \* the loop body for one neighbor
             Body(neighbor, neighborKey, heuristic) ==
                 IF \/ neighborKey \in closed
                    \/ tentativeGScore + heuristic > maxDepth
                    \/ ~ \/ neighborKey \notin DOMAIN acc.gScore
                         \/ tentativeGScore < acc.gScore[neighborKey]
                 THEN acc
                 ELSE [cameFrom |-> MapSet(acc.cameFrom, neighborKey,
                                       [state |-> current, move |-> neighbor.lastMove]),
                       gScore |-> MapSet(acc.gScore, neighborKey, tentativeGScore),
                       openSet |-> enqueue(acc.openSet, neighbor,
                                           tentativeGScore + heuristic)]
         IN  Only({AStarRelax(neighbors, k + 1, current, currentGScore, closed, next) :
                       next \in {Body(n, nk, h) :
                                     n \in {neighbors[k]},
                                     nk \in {stateToNumber(neighbors[k])},
                                     h \in {enhancedHeuristic(neighbors[k])}}})

\* the locals of aStarAsync as a record; exit says how the code left the
\* loop: at the timer ("yield"), by returning the path to current ("path"),
\* by falling out of the loop ("failed"), or not yet ("none")
AStarLocals(open, closed, came, g, n) ==
    [openSet |-> open, closedSet |-> closed, cameFrom |-> came, gScore |-> g,
     iterations |-> n, exit |-> "none", current |-> NoItem]

\* one loop iteration from the dequeue on
AStarBody(st) ==
    LET Expand(current, rest, currentKey) ==
            IF currentKey = stateToNumber(goal)
            THEN [st EXCEPT !.openSet = rest, !.exit = "path", !.current = current]
            ELSE IF currentKey \in st.closedSet
            THEN [st EXCEPT !.openSet = rest]
            ELSE LET closed == st.closedSet \cup {currentKey}
                     currentGScore == IF currentKey \in DOMAIN st.gScore
                                      THEN st.gScore[currentKey] ELSE 0
                 IN  Only({[st EXCEPT !.closedSet = closed,
                                      !.cameFrom = acc.cameFrom,
                                      !.gScore = acc.gScore,
                                      !.openSet = acc.openSet] :
                               acc \in {AStarRelax(neighbors, 1, current, currentGScore,
                                                   closed,
                                                   [cameFrom |-> st.cameFrom,
                                                    gScore |-> st.gScore,
                                                    openSet |-> rest]) :
                                           neighbors \in {getNeighborsOptimized(current)}}})
    IN  Only({Expand(current, rest, currentKey) :
                  current \in {peek(st.openSet)},
                  rest \in {dequeue(st.openSet)},
                  currentKey \in {stateToNumber(peek(st.openSet))}})

\* AStarStep with the timer set at every 20th pass
AStarStep_Every20(st) ==
    IF st.exit # "none" THEN st
    ELSE IF st.openSet = <<>> \/ st.iterations >= maxIterations
    THEN [st EXCEPT !.exit = "failed"]
    ELSE IF (st.iterations + 1) % 20 = 0
    THEN [st EXCEPT !.iterations = @ + 1, !.exit = "yield"]
    ELSE Only({AStarBody(counted) : counted \in {[st EXCEPT !.iterations = @ + 1]}})

\* one pass of the while loop from its head (none once the loop was left)
AStarStep(st) ==
    IF st.exit # "none" THEN st
    ELSE IF st.openSet = <<>> \/ st.iterations >= maxIterations
    THEN [st EXCEPT !.exit = "failed"]
    ELSE IF (st.iterations + 1) % progressInterval = 0
    THEN [st EXCEPT !.iterations = @ + 1, !.exit = "yield"]
    ELSE Only({AStarBody(counted) : counted \in {[st EXCEPT !.iterations = @ + 1]}})

RECURSIVE AStarSteps(_, _)
\* n passes of the while loop, one after the other
AStarSteps(st, n) ==
    IF n = 0 THEN st
    ELSE IF n = 1 THEN AStarStep(st)
    ELSE Only({AStarSteps(half, n - (n \div 2)) :
                   half \in {AStarSteps(st, n \div 2)}})

\* the while loop up to the next timer, return or throw: the timer comes
\* within progressInterval passes
AStarLoop(st) == AStarSteps(st, progressInterval)

\* AStarThrow with the catch handler going straight to the fallback
AStarThrow_SkipIda(message) ==
    /\ tiers' = [tiers EXCEPT !.astar = message]
    /\ ClearAStar
    /\ iterations' = 0
    /\ pc' = "guidedBFS"
    /\ UNCHANGED <<events, outcome>>

\* AStarThrow without a catch handler: the error reaches solve's caller
AStarThrow_Uncaught(message) ==
    /\ tiers' = [tiers EXCEPT !.astar = message]
    /\ ClearAStar
    /\ iterations' = 0
    /\ outcome' = Thrown(message)
    /\ pc' = "done"
    /\ UNCHANGED events

\* aStarAsync throws; solve catches and goes on to idaStarAsync
AStarThrow(message) ==
    /\ tiers' = [tiers EXCEPT !.astar = message]
    /\ ClearAStar
    /\ iterations' = 0
    /\ pc' = "idaStarAsync"
    /\ UNCHANGED <<events, outcome>>

\* where aStarAsync stands after a stretch st of its loop
AStarSettle(st) ==
    IF st.exit = "failed" THEN AStarThrow("A* failed")
    ELSE /\ openSet' = st.openSet
         /\ closedSet' = st.closedSet
         /\ cameFrom' = st.cameFrom
         /\ gScore' = st.gScore
         /\ iterations' = st.iterations
         /\ UNCHANGED initialHeuristic
         /\ IF st.exit = "yield"
            THEN /\ Notify(<<Event("A* searching...",
                                   15 * maxIterations + st.iterations * 30,
                                   maxIterations)>>)
                 /\ pc' = "astarWait"
                 /\ UNCHANGED <<outcome, tiers>>
            ELSE /\ Notify(<<Event("A* solution found!", 50, 1)>>)
                 /\ outcome' = Returned(reconstructPath(st.cameFrom, st.current))
                 /\ tiers' = [tiers EXCEPT !.astar = "path"]
                 /\ pc' = "done"

\* the while loop is entered and runs up to its first timer, return or throw
AStarIterate ==
    /\ pc = "astarLoop"
    /\ \E st \in {AStarLoop(AStarLocals(openSet, closedSet, cameFrom, gScore,
                                        iterations))} :
           AStarSettle(st)
    /\ UNCHANGED <<size, initialBoard, targetBoard, goalPositions, apartVars, gameVars,
                   walkVars,
                   progressCallback, idaVars, bfsVars>>


\* AStarResume for a promise whose resolve is never called
AStarResume_NeverResolved ==
    /\ pc = "astarWait"
    /\ FALSE
    /\ UNCHANGED vars

\* the timer of the yield has fired: the elapsed time read before it is
\* compared, and the loop goes on up to the next timer, return or throw
AStarResume ==
    /\ pc = "astarWait"
    /\ \E over \in BOOLEAN :
           IF over
           THEN AStarThrow("A* timeout")
           ELSE \E st \in {AStarLoop(AStarBody(AStarLocals(openSet, closedSet, cameFrom,
                                                           gScore, iterations)))} :
                    AStarSettle(st)
    /\ UNCHANGED <<size, initialBoard, targetBoard, goalPositions, apartVars, gameVars,
                   walkVars,
                   progressCallback, idaVars, bfsVars>>

(***************************************************************************)
(* idaStarAsync and idaSearch.  The recursion is kept as a stack of        *)
(* frames {state, g, next, min}: next is the index of the neighbor the     *)
(* for loop looks at next, min the local of that name.  A value idaSearch  *)
(* returns is {isPath, moves, value}.                                      *)
(***************************************************************************)
maxThreshold == 70
maxIdaIterations == 30

PathResult(moves) == [isPath |-> TRUE, moves |-> moves, value |-> 0]
NumberResult(value) == [isPath |-> FALSE, moves |-> <<>>, value |-> value]

RECURSIVE IdaAdvance(_, _)
RECURSIVE IdaDeliver(_, _, _)

\* IdaAdvance without visited.delete(currentKey) before `return min`
IdaAdvance_NoDelete(stack, visited) ==
    LET frame == stack[Len(stack)]
        Loop(neighbors) ==
            LET open == {k \in frame.next..Len(neighbors) :
                            stateToNumber(neighbors[k]) \notin visited}
            IN  IF open # {}
                THEN LET k == CHOOSE x \in open : \A y \in open : x <= y
                     IN  [stack |-> [stack EXCEPT ![Len(stack)].next = k + 1],
                          visited |-> visited,
                          call |-> [state |-> neighbors[k], g |-> frame.g + 1],
                          result |-> NoResult]
                ELSE Only({IdaDeliver(popped, unvisited, NumberResult(frame.min)) :
                               popped \in {SubSeq(stack, 1, Len(stack) - 1)},
                               unvisited \in {visited}})
    IN  Only({Loop(neighbors) :
                  neighbors \in {getNeighborsOptimized(stack[Len(stack)].state)}})

\* the for loop of the top frame goes on: it calls idaSearch for the next
\* neighbor that is not visited, or ends and returns min to the caller
IdaAdvance(stack, visited) ==
    LET frame == stack[Len(stack)]
        Loop(neighbors) ==
            LET open == {k \in frame.next..Len(neighbors) :
                            stateToNumber(neighbors[k]) \notin visited}
            IN  IF open # {}
                THEN LET k == CHOOSE x \in open : \A y \in open : x <= y
                     IN  [stack |-> [stack EXCEPT ![Len(stack)].next = k + 1],
                          visited |-> visited,
                          call |-> [state |-> neighbors[k], g |-> frame.g + 1],
                          result |-> NoResult]
                ELSE Only({IdaDeliver(popped, unvisited, NumberResult(frame.min)) :
                               popped \in {SubSeq(stack, 1, Len(stack) - 1)},
                               unvisited \in {visited \ {stateToNumber(frame.state)}}})
    IN  Only({Loop(neighbors) :
                  neighbors \in {getNeighborsOptimized(stack[Len(stack)].state)}})

\* a call has returned ret to the frame on top of the stack (to
\* idaStarAsync when the stack is empty)
IdaDeliver(stack, visited, ret) ==
    IF stack = <<>>
    THEN [stack |-> stack, visited |-> visited, call |-> NoCall, result |-> ret]
    ELSE LET frame == stack[Len(stack)]
             neighbor == getNeighborsOptimized(frame.state)[frame.next - 1]
         IN  IF ret.isPath
             THEN Only({IdaDeliver(popped, visited, found) :
                            popped \in {SubSeq(stack, 1, Len(stack) - 1)},
                            found \in {PathResult(<<neighbor.lastMove>> \o ret.moves)}})
             ELSE Only({IdaAdvance(lowered, visited) :
                            lowered \in {[stack EXCEPT ![Len(stack)].min =
                                             IF ret.value < @ THEN ret.value ELSE @]}})

\* idaSearch from its entry to the next call, return or timer
IdaEnter(call, stack, visited) ==
    LET Search(f, currentKey, pushed) ==
            IF f > threshold THEN IdaDeliver(stack, visited, NumberResult(f))
            ELSE IF currentKey = stateToNumber(goal)
            THEN IdaDeliver(stack, visited, PathResult(<<>>))
            ELSE IF currentKey \in visited
            THEN IdaDeliver(stack, visited, NumberResult(Infinity))
            ELSE IF call.g > 0 /\ call.g % 10 = 0
            THEN [stack |-> pushed, visited |-> visited \cup {currentKey},
                  call |-> NoCall, result |-> NoResult]
            ELSE Only({IdaAdvance(pushed, marked) :
                           marked \in {visited \cup {currentKey}}})
    IN  Only({Search(f, currentKey, pushed) :
                  f \in {call.g + enhancedHeuristic(call.state)},
                  currentKey \in {stateToNumber(call.state)},
                  pushed \in {Append(stack, [state |-> call.state, g |-> call.g,
                                             next |-> 1, min |-> Infinity])}})

\* idaStarAsync up to its while loop (with solve's announcement before it)
IdaStart ==
    /\ pc = "idaStarAsync"
    /\ Notify(<<Event("Switching to IDA* algorithm...", 10, 1)>>)
    /\ threshold' = enhancedHeuristic(start)
    /\ iteration' = 0
    /\ tiers' = [tiers EXCEPT !.ida = "running"]
    /\ pc' = "idaLoop"
    /\ UNCHANGED <<size, initialBoard, targetBoard, goalPositions, apartVars, gameVars,
                   walkVars,
                   progressCallback, outcome, iterations, astarVars,
                   idaStack, idaCall, idaResult, idaVisited, pruned, sinceYield,
                   bfsVars>>

\* the head of the while loop without its two ceilings
IdaIterate_NoCeiling ==
    /\ pc = "idaLoop"
    /\ Notify(<<Event("IDA* depth", 50 * maxThreshold + threshold * 30,
                      maxThreshold)>>)
    /\ \E over \in BOOLEAN :
           IF over
           THEN /\ tiers' = [tiers EXCEPT !.ida = "IDA* timeout"]
                /\ ClearIda
                /\ pc' = "guidedBFS"
           ELSE /\ iteration' = iteration + 1
                /\ pc' = "idaWait"
                /\ sinceYield' = 0
                /\ UNCHANGED <<tiers, threshold, idaStack, idaCall,
                               idaResult, idaVisited, pruned>>
    /\ UNCHANGED <<size, initialBoard, targetBoard, goalPositions, apartVars, gameVars,
                   walkVars,
                   progressCallback, outcome, iterations, astarVars, bfsVars>>

\* the head of the while loop, up to the timer between iterations
IdaIterate ==
    /\ pc = "idaLoop"
    /\ IF threshold < maxThreshold /\ iteration < maxIdaIterations
       THEN /\ Notify(<<Event("IDA* depth", 50 * maxThreshold + threshold * 30,
                              maxThreshold)>>)
            /\ \E over \in BOOLEAN :
                   IF over
                   THEN /\ tiers' = [tiers EXCEPT !.ida = "IDA* timeout"]
                        /\ ClearIda
                        /\ pc' = "guidedBFS"
                   ELSE /\ iteration' = iteration + 1
                        /\ pc' = "idaWait"
                        /\ sinceYield' = 0
                        /\ UNCHANGED <<tiers, threshold, idaStack, idaCall,
                                       idaResult, idaVisited, pruned>>
       ELSE /\ tiers' = [tiers EXCEPT !.ida = "null"]
            /\ ClearIda
            /\ pc' = "guidedBFS"
            /\ UNCHANGED events
    /\ UNCHANGED <<size, initialBoard, targetBoard, goalPositions, apartVars, gameVars,
                   walkVars,
                   progressCallback, outcome, iterations, astarVars, bfsVars>>

\* where idaSearch stands after a stretch r of it
IdaSettle(r) ==
    /\ idaStack' = r.stack
    /\ idaVisited' = r.visited
    /\ idaCall' = r.call
    /\ idaResult' = r.result
    /\ pc' = IF r.result # NoResult THEN "idaResult"
             ELSE IF r.call # NoCall THEN "idaSearch"
             ELSE "idaYield"

\* the timer between iterations has fired: idaSearch(start, 0, ...) is called
IdaResume ==
    /\ pc = "idaWait"
    /\ \E r \in {IdaEnter([state |-> start, g |-> 0], <<>>, {})} : IdaSettle(r)
    /\ pruned' = {f \in {enhancedHeuristic(start)} : f > threshold}
    /\ sinceYield' = IF pc' = "idaYield" THEN 0 ELSE 1
    /\ UNCHANGED <<size, initialBoard, targetBoard, goalPositions, apartVars, gameVars,
                   walkVars,
                   progressCallback, outcome, tiers, events, iterations,
                   astarVars, threshold, iteration, bfsVars>>

\* one recursive call of idaSearch is entered
IdaSearch ==
    /\ pc = "idaSearch"
    /\ \E r \in {IdaEnter(idaCall, idaStack, idaVisited)} : IdaSettle(r)
    /\ pruned' = pruned \cup {f \in {idaCall.g + enhancedHeuristic(idaCall.state)} :
                                f > threshold}
    /\ sinceYield' = IF pc' = "idaYield" THEN 0 ELSE sinceYield + 1
    /\ UNCHANGED <<size, initialBoard, targetBoard, goalPositions, apartVars, gameVars,
                   walkVars,
                   progressCallback, outcome, tiers, events, iterations,
                   astarVars, threshold, iteration, bfsVars>>

\* the timer of a yield inside idaSearch has fired
IdaYieldResume ==
    /\ pc = "idaYield"
    /\ \E r \in {IdaAdvance(idaStack, idaVisited)} : IdaSettle(r)
    /\ UNCHANGED <<pruned, sinceYield>>
    /\ UNCHANGED <<size, initialBoard, targetBoard, goalPositions, apartVars, gameVars,
                   walkVars,
                   progressCallback, outcome, tiers, events, iterations,
                   astarVars, threshold, iteration, bfsVars>>

\* IdaIterEnd with the next threshold one above the last, whatever the
\* search returned
IdaIterEnd_StepByOne ==
    /\ pc = "idaResult"
    /\ IF idaResult.isPath
       THEN /\ Notify(<<Event("IDA* solution found!", 95, 1)>>)
            /\ outcome' = Returned(idaResult.moves)
            /\ tiers' = [tiers EXCEPT !.ida = "path"]
            /\ pc' = "done"
            /\ UNCHANGED idaVars
       ELSE IF idaResult.value = Infinity
       THEN /\ tiers' = [tiers EXCEPT !.ida = "null"]
            /\ ClearIda
            /\ pc' = "guidedBFS"
            /\ UNCHANGED <<events, outcome>>
       ELSE /\ threshold' = threshold + 1
            /\ idaResult' = NoResult
            /\ idaVisited' = {}
            /\ pc' = "idaLoop"
            /\ UNCHANGED <<events, outcome, tiers, iteration, idaStack, idaCall,
                           pruned, sinceYield>>
    /\ UNCHANGED <<size, initialBoard, targetBoard, goalPositions, apartVars, gameVars,
                   walkVars,
                   progressCallback, iterations, astarVars, bfsVars>>

\* idaStarAsync looks at what idaSearch returned
IdaIterEnd ==
    /\ pc = "idaResult"
    /\ IF idaResult.isPath
       THEN /\ Notify(<<Event("IDA* solution found!", 95, 1)>>)
            /\ outcome' = Returned(idaResult.moves)
            /\ tiers' = [tiers EXCEPT !.ida = "path"]
            /\ pc' = "done"
            /\ UNCHANGED idaVars
       ELSE IF idaResult.value = Infinity
       THEN /\ tiers' = [tiers EXCEPT !.ida = "null"]
            /\ ClearIda
            /\ pc' = "guidedBFS"
            /\ UNCHANGED <<events, outcome>>
       ELSE /\ threshold' = idaResult.value
            /\ idaResult' = NoResult
            /\ idaVisited' = {}
            /\ pc' = "idaLoop"
            /\ UNCHANGED <<events, outcome, tiers, iteration, idaStack, idaCall,
                           pruned, sinceYield>>
    /\ UNCHANGED <<size, initialBoard, targetBoard, goalPositions, apartVars, gameVars,
                   walkVars,
                   progressCallback, iterations, astarVars, bfsVars>>

(***************************************************************************)
(* guidedBFS                                                               *)
(***************************************************************************)
maxPathLength == 45

\* guidedBFS up to its while loop (with solve's announcement before it)
BfsStart ==
    /\ pc = "guidedBFS"
    /\ Notify(<<Event("Using simple search...", 60, 1)>>)
    /\ queue' = enqueue(<<>>, [state |-> start, path |-> <<>>],
                        enhancedHeuristic(start))
    /\ bfsVisited' = {stateToNumber(start)}
    /\ iterations' = 0
    /\ bestHeuristic' = enhancedHeuristic(start)
    /\ tiers' = [tiers EXCEPT !.bfs = "running"]
    /\ pc' = "bfsLoop"
    /\ UNCHANGED <<size, initialBoard, targetBoard, goalPositions, apartVars, gameVars,
                   walkVars,
                   progressCallback, outcome, astarVars, idaVars>>

RECURSIVE BfsInsert_Unmarked(_, _, _, _)
\* BfsInsert without `visited.add(neighborKey)`
BfsInsert_Unmarked(neighbors, k, path, acc) ==
    IF k > Len(neighbors) THEN acc
    ELSE LET Body(neighbor, neighborKey) ==
                 IF neighborKey \in acc.visited THEN acc
                 ELSE [visited |-> acc.visited,
                       queue |-> enqueue(acc.queue,
                                    [state |-> neighbor,
                                     path |-> Append(path, neighbor.lastMove)],
                                    enhancedHeuristic(neighbor) + Len(path) + 1)]
         IN  Only({BfsInsert_Unmarked(neighbors, k + 1, path, next) :
                       next \in {Body(n, nk) :
                                     n \in {neighbors[k]},
                                     nk \in {stateToNumber(neighbors[k])}}})

RECURSIVE BfsInsert(_, _, _, _)
\* the for loop over the neighbors from index k on
BfsInsert(neighbors, k, path, acc) ==
    IF k > Len(neighbors) THEN acc
    ELSE LET \* the loop body for one neighbor
             Body(neighbor, neighborKey) ==
                 IF neighborKey \in acc.visited THEN acc
                 ELSE [visited |-> acc.visited \cup {neighborKey},
                       queue |-> enqueue(acc.queue,
                                    [state |-> neighbor,
                                     path |-> Append(path, neighbor.lastMove)],
                                    enhancedHeuristic(neighbor) + Len(path) + 1)]
         IN  Only({BfsInsert(neighbors, k + 1, path, next) :
                       next \in {Body(n, nk) :
                                     n \in {neighbors[k]},
                                     nk \in {stateToNumber(neighbors[k])}}})

\* guidedBFS returns null; solve throws its final error
BfsFail ==
    /\ tiers' = [tiers EXCEPT !.bfs = "null"]
    /\ outcome' = Thrown("Could not find a solution - this puzzle is really tricky!")
    /\ pc' = "done"
    /\ UNCHANGED <<events, bfsVars>>

\* BfsExpand without `if (path.length >= 45) continue`
BfsExpand_NoLengthCap ==
    LET item == queue[1].item
        rest == dequeue(queue)
        currentHeuristic == enhancedHeuristic(item.state)
    IN  /\ bestHeuristic' = IF currentHeuristic < bestHeuristic
                            THEN currentHeuristic ELSE bestHeuristic
        /\ IF stateToNumber(item.state) = stateToNumber(goal)
           THEN /\ Notify(<<Event("Guided search found solution!", 100, 1)>>)
                /\ outcome' = Returned(item.path)
                /\ tiers' = [tiers EXCEPT !.bfs = "path"]
                /\ queue' = rest
                /\ pc' = "done"
                /\ UNCHANGED bfsVisited
           ELSE \E neighbors \in {getNeighborsOptimized(item.state)} :
                \E acc \in {BfsInsert(neighbors, 1, item.path,
                                       [visited |-> bfsVisited, queue |-> rest])} :
                    /\ queue' = acc.queue
                    /\ bfsVisited' = acc.visited
                    /\ pc' = "bfsLoop"
                    /\ UNCHANGED <<events, outcome, tiers>>

\* one loop iteration from the dequeue on
BfsExpand ==
    LET item == queue[1].item
        rest == dequeue(queue)
        currentHeuristic == enhancedHeuristic(item.state)
    IN  /\ bestHeuristic' = IF currentHeuristic < bestHeuristic
                            THEN currentHeuristic ELSE bestHeuristic
        /\ IF stateToNumber(item.state) = stateToNumber(goal)
           THEN /\ Notify(<<Event("Guided search found solution!", 100, 1)>>)
                /\ outcome' = Returned(item.path)
                /\ tiers' = [tiers EXCEPT !.bfs = "path"]
                /\ queue' = rest
                /\ pc' = "done"
                /\ UNCHANGED bfsVisited
           ELSE IF Len(item.path) >= maxPathLength
           THEN /\ queue' = rest
                /\ pc' = "bfsLoop"
                /\ UNCHANGED <<events, outcome, tiers, bfsVisited>>
           ELSE \E neighbors \in {getNeighborsOptimized(item.state)} :
                \E acc \in {BfsInsert(neighbors, 1, item.path,
                                       [visited |-> bfsVisited, queue |-> rest])} :
                    /\ queue' = acc.queue
                    /\ bfsVisited' = acc.visited
                    /\ pc' = "bfsLoop"
                    /\ UNCHANGED <<events, outcome, tiers>>

\* the head of the while loop, up to the timer or through the iteration
BfsIterate ==
    /\ pc = "bfsLoop"
    /\ IF queue # <<>> /\ iterations < maxStates
       THEN /\ iterations' = iterations + 1
            /\ IF (iterations + 1) % 100 = 0
               THEN /\ Notify(<<Event("Guided search...",
                                      70 * maxStates + (iterations + 1) * 25,
                                      maxStates)>>)
                    /\ pc' = "bfsWait"
                    /\ UNCHANGED <<outcome, tiers, bfsVars>>
               ELSE BfsExpand
       ELSE /\ BfsFail
            /\ UNCHANGED iterations
    /\ UNCHANGED <<size, initialBoard, targetBoard, goalPositions, apartVars, gameVars,
                   walkVars,
                   progressCallback, astarVars, idaVars>>

\* the timer of the yield has fired
BfsResume ==
    /\ pc = "bfsWait"
    /\ \E over \in BOOLEAN :
           IF over THEN BfsFail ELSE BfsExpand
    /\ UNCHANGED <<size, initialBoard, targetBoard, goalPositions, apartVars, gameVars,
                   walkVars,
                   progressCallback, iterations, astarVars, idaVars>>

(***************************************************************************)
(* Spec: one solve invocation on boards of the sample sets.                *)
(***************************************************************************)
SolveSizes == {2, 3, 4}

\* a 3 x 3 board fifteen slides away from the solved board
FifteenAway == <<5, 3, 2, 4, 1, 6, 7, 0, 8>>

\* 2 x 2 targets: the solved board, the swapped one, and two with the blank
\* in the first row
Targets2 == {SolvedBoard(2), SwappedBoard(2), <<0, 2, 1, 3>>, <<3, 0, 1, 2>>}

\* a 3 x 3 board with the blank in the middle of the last row, one slide
\* from the solved board
BlankLowMiddle == <<1, 2, 3, 4, 5, 6, 7, 0, 8>>

\* the 4 x 4 solved board before tile 12 was slid up into its place
TwelveBelow == <<1, 2, 3, 4, 5, 6, 7, 8, 9, 10, 11, 0, 13, 14, 15, 12>>

\* a 4 x 4 board isSolvable accepts, tile 5 left of the blank in the last
\* row, and the board one slide later
FiveBeforeBlank == <<1, 2, 3, 4, 6, 7, 8, 9, 10, 11, 12, 13, 14, 15, 5, 0>>
FiveAfterBlank == <<1, 2, 3, 4, 6, 7, 8, 9, 10, 11, 12, 13, 14, 15, 0, 5>>

SolvePairs(n) ==
    IF n = 2 THEN Boards(2) \X Targets2
    ELSE IF n = 3 THEN {<<FifteenAway, SolvedBoard(3)>>,
                        <<SolvedBoard(3), SolvedBoard(3)>>,
                        <<BlankLowMiddle, SolvedBoard(3)>>}
    ELSE {<<TwelveBelow, SolvedBoard(4)>>,
          <<FiveBeforeBlank, FiveAfterBlank>>}

Init ==
    /\ size \in SolveSizes
    /\ \E pair \in SolvePairs(size) :
           /\ initialBoard = pair[1]
           /\ targetBoard = pair[2]
    /\ progressCallback \in BOOLEAN
    /\ goalPositions = <<>>
    /\ cur = boardToCompactState(initialBoard)
    /\ depth = 0
    /\ pc = "idle"
    /\ NewQueue
    /\ walked = <<>>
    /\ typed = <<>>
    /\ validated = NotCalled
    /\ converted = [kind |-> "none"]
    /\ heap = CallerHeap
    /\ GameIdle
    /\ outcome = Pending
    /\ tiers = [astar |-> "idle", ida |-> "idle", bfs |-> "idle"]
    /\ events = [called |-> FALSE, batch |-> <<>>]
    /\ openSet = <<>>
    /\ closedSet = {}
    /\ cameFrom = EmptyMap
    /\ gScore = EmptyMap
    /\ iterations = 0
    /\ initialHeuristic = 0
    /\ threshold = 0
    /\ iteration = 0
    /\ idaStack = <<>>
    /\ idaCall = NoCall
    /\ idaResult = NoResult
    /\ idaVisited = {}
    /\ pruned = {}
    /\ sinceYield = 0
    /\ queue = <<>>
    /\ bfsVisited = {}
    /\ bestHeuristic = 0

Next ==
    \/ Solve
    \/ AStarStart
    \/ AStarIterate
    \/ AStarResume
    \/ IdaStart
    \/ IdaIterate
    \/ IdaResume
    \/ IdaSearch
    \/ IdaYieldResume
    \/ IdaIterEnd
    \/ BfsStart
    \/ BfsIterate
    \/ BfsResume

Spec == Init /\ [][Next]_vars

\* every step of solve is taken once it can be: the host runs the code that
\* is ready and fires every timer that was scheduled
FairSpec == Spec /\ WF_vars(Next)

(***************************************************************************)
(* Walks: a board followed through legal slides.  SpecWalk starts from a   *)
(* sample board and explores every slide sequence of at most MaxWalk       *)
(* moves; goalPositions is what aStarAsync derives from the target.        *)
(***************************************************************************)
WalkSizes == {2, 3, 4}

\* a 3 x 3 board whose middle row holds its own tiles rotated
RotatedRowBoard == <<1, 2, 3, 5, 6, 4, 7, 8, 0>>

WalkStarts(n) ==
    IF n = 2 THEN Boards(2)
    ELSE IF n = 3 THEN {SolvedBoard(3), SwappedBoard(3), RotatedRowBoard}
    ELSE {SolvedBoard(n), SwappedBoard(n), FiveBeforeBlank}

WalkInit ==
    /\ size \in WalkSizes
    /\ targetBoard = SolvedBoard(size)
    /\ initialBoard \in WalkStarts(size)
    /\ goalPositions = GoalPositionsOf(targetBoard)
    /\ cur = boardToCompactState(initialBoard)
    /\ depth = 0
    /\ SolverIdle
    /\ GameIdle

\* one legal slide: cur becomes one of its neighbors
WalkSlide ==
    /\ depth < MaxWalk
    /\ \E k \in 1..Len(getNeighborsOptimized(cur)) :
           cur' = getNeighborsOptimized(cur)[k]
    /\ depth' = depth + 1
    /\ UNCHANGED <<size, initialBoard, targetBoard, goalPositions, solveVars,
                   apartVars, gameVars>>

WalkNext == WalkSlide

SpecWalk == WalkInit /\ [][WalkNext]_vars

(***************************************************************************)
(* Descent: slide sequences from a board towards the target, followed only *)
(* while the Manhattan distance still allows the target to be reached      *)
(* within MaxDescent moves.  Every state reached is a real slide sequence  *)
(* of `depth` moves from initialBoard.                                     *)
(***************************************************************************)
\* a 3 x 3 board whose three rows and three columns are all reversed
ReversedBoard == <<8, 7, 0, 6, 5, 4, 3, 2, 1>>

DescentStarts == {ReversedBoard}

DescentInit ==
    /\ size = 3
    /\ targetBoard = SolvedBoard(3)
    /\ initialBoard \in DescentStarts
    /\ goalPositions = GoalPositionsOf(targetBoard)
    /\ cur = boardToCompactState(initialBoard)
    /\ depth = 0
    /\ SolverIdle
    /\ GameIdle

DescentSlide ==
    /\ cur.board # targetBoard
    /\ \E k \in 1..Len(getNeighborsOptimized(cur)) :
           /\ depth + 1 + fastHeuristic(getNeighborsOptimized(cur)[k]) <= MaxDescent
           /\ cur' = getNeighborsOptimized(cur)[k]
    /\ depth' = depth + 1
    /\ UNCHANGED <<size, initialBoard, targetBoard, goalPositions, solveVars,
                   apartVars, gameVars>>

DescentNext == DescentSlide

SpecDescent == DescentInit /\ [][DescentNext]_vars

(***************************************************************************)
(* SpecOptimal: a reference walk, then the A* tier.  While solve has not   *)
(* been called the walk follows every slide sequence of at most MaxOptimal *)
(* moves that the Manhattan distance does not rule out; solve is called    *)
(* once the walk stands on the target, so `depth` is then the length of a  *)
(* real slide sequence from initialBoard to targetBoard.  The run is       *)
(* followed to the end of aStarAsync.                                      *)
(***************************************************************************)
\* a board twenty-one slides away from the target BlankLowMiddle
TwentyOneAway == <<5, 2, 8, 1, 0, 7, 4, 3, 6>>

OptimalPairs == {<<TwentyOneAway, BlankLowMiddle>>}

OptimalInit ==
    /\ size = 3
    /\ \E pair \in OptimalPairs :
           /\ initialBoard = pair[1]
           /\ targetBoard = pair[2]
    /\ progressCallback = FALSE
    /\ goalPositions = GoalPositionsOf(targetBoard)
    /\ cur = boardToCompactState(initialBoard)
    /\ depth = 0
    /\ pc = "idle"
    /\ NewQueue
    /\ walked = <<>>
    /\ typed = <<>>
    /\ validated = NotCalled
    /\ converted = [kind |-> "none"]
    /\ heap = CallerHeap
    /\ GameIdle
    /\ outcome = Pending
    /\ tiers = [astar |-> "idle", ida |-> "idle", bfs |-> "idle"]
    /\ events = [called |-> FALSE, batch |-> <<>>]
    /\ openSet = <<>>
    /\ closedSet = {}
    /\ cameFrom = EmptyMap
    /\ gScore = EmptyMap
    /\ iterations = 0
    /\ initialHeuristic = 0
    /\ threshold = 0
    /\ iteration = 0
    /\ idaStack = <<>>
    /\ idaCall = NoCall
    /\ idaResult = NoResult
    /\ idaVisited = {}
    /\ pruned = {}
    /\ sinceYield = 0
    /\ queue = <<>>
    /\ bfsVisited = {}
    /\ bestHeuristic = 0

OptimalSlide ==
    /\ pc = "idle"
    /\ cur.board # targetBoard
    /\ \E k \in 1..Len(getNeighborsOptimized(cur)) :
           /\ depth + 1 + fastHeuristic(getNeighborsOptimized(cur)[k]) <= MaxOptimal
           /\ cur' = getNeighborsOptimized(cur)[k]
    /\ depth' = depth + 1
    /\ UNCHANGED <<size, initialBoard, targetBoard, goalPositions, solveVars,
                   apartVars, gameVars>>

OptimalSolve ==
    /\ cur.board = targetBoard
    /\ Solve

OptimalNext ==
    \/ OptimalSlide
    \/ OptimalSolve
    \/ AStarStart
    \/ AStarIterate
    \/ AStarResume

SpecOptimal == OptimalInit /\ [][OptimalNext]_vars

(***************************************************************************)
(* Two solve invocations on one PuzzleSolver.  The invocation followed by  *)
(* the variables is suspended whenever it waits for a timer (the await of  *)
(* a setTimeout promise in aStarAsync, idaStarAsync, idaSearch and         *)
(* guidedBFS); the host may then run another call of solve on the same     *)
(* object up to that call's first await.  Of the other call only what it   *)
(* does to the object is kept: aStarAsync stores the goal positions of its *)
(* own target in this.goalPositions (its queue, sets and maps are locals). *)
(* Its initial board is one isSolvable accepts, so that it gets there.     *)
(***************************************************************************)
SuspendedAt == {"astarWait", "idaWait", "idaYield", "bfsWait"}

OtherTargets(n) ==
    IF n = 2 THEN {SolvedBoard(2), SwappedBoard(2)}
    ELSE IF n = 3 THEN {BlankLowMiddle}
    ELSE {SolvedBoard(n)}

\* another solve call runs from its start into aStarAsync
OtherSolve ==
    /\ pc \in SuspendedAt
    /\ \E other \in OtherTargets(size) \ {targetBoard} :
           /\ goalPositions # GoalPositionsOf(other)
           /\ goalPositions' = GoalPositionsOf(other)
    /\ UNCHANGED <<size, initialBoard, targetBoard, walkVars, solveVars,
                   apartVars, gameVars>>

InterleavedNext ==
    \/ Next
    \/ OtherSolve

SpecInterleaved == Init /\ [][InterleavedNext]_vars

(***************************************************************************)
(* A PriorityQueue used on its own: any sequence of enqueue, dequeue and   *)
(* peek calls.  The item of the k-th enqueue call is [seq |-> k], so that  *)
(* items tell the order in which they were enqueued.                       *)
(***************************************************************************)
QueueInit ==
    /\ size = 2
    /\ initialBoard = SolvedBoard(2)
    /\ targetBoard = SolvedBoard(2)
    /\ goalPositions = GoalPositionsOf(targetBoard)
    /\ cur = boardToCompactState(initialBoard)
    /\ depth = 0
    /\ SolverIdle
    /\ GameIdle

QueueEnqueue ==
    /\ enqueued < MaxEnqueued
    /\ \E priority \in 0..MaxPriority :
           pq' = enqueue(pq, [seq |-> enqueued + 1], priority)
    /\ enqueued' = enqueued + 1
    /\ UNCHANGED <<size, initialBoard, targetBoard, goalPositions, walkVars,
                   solveVars, taken,
                   walked, callVars, gameVars>>

QueueDequeue ==
    /\ taken' = shifted(pq)
    /\ pq' = dequeue(pq)
    /\ UNCHANGED <<size, initialBoard, targetBoard, goalPositions, walkVars,
                   solveVars, enqueued,
                   walked, callVars, gameVars>>

QueuePeek ==
    /\ taken' = peek(pq)
    /\ UNCHANGED <<size, initialBoard, targetBoard, goalPositions, walkVars,
                   solveVars, pq, enqueued,
                   walked, callVars, gameVars>>

QueueNext ==
    \/ QueueEnqueue
    \/ QueueDequeue
    \/ QueuePeek

SpecQueue == QueueInit /\ [][QueueNext]_vars

(***************************************************************************)
(* Walks that keep their moves: as SpecWalk, with the lastMove of every    *)
(* neighbor taken appended to `walked`, the move list applyMoves replays.  *)
(***************************************************************************)
ReplaySlide ==
    /\ depth < MaxWalk
    /\ \E k \in 1..Len(getNeighborsOptimized(cur)) :
           /\ cur' = getNeighborsOptimized(cur)[k]
           /\ walked' = Append(walked, getNeighborsOptimized(cur)[k].lastMove)
    /\ depth' = depth + 1
    /\ UNCHANGED <<size, initialBoard, targetBoard, goalPositions, solveVars,
                   pqVars, callVars, gameVars>>

ReplayNext == ReplaySlide

SpecReplay == WalkInit /\ [][ReplayNext]_vars

(***************************************************************************)
(* solve on boards whose A* search takes some hundreds of iterations,      *)
(* followed to the end of aStarAsync: two 4 x 4 pairs (379 and 499          *)
(* iterations when no timer is late) and a 3 x 3 board twenty slides from   *)
(* the solved board with a first estimate of 8 (471 iterations, neighbors   *)
(* beyond initialHeuristic + 15 met from the 237th on).                     *)
(***************************************************************************)
SearchPairs ==
    {<< <<14, 1, 11, 5, 3, 12, 15, 9, 2, 6, 7, 0, 13, 4, 8, 10>>,
        <<14, 1, 11, 5, 12, 15, 9, 8, 3, 6, 4, 10, 2, 13, 0, 7>> >>,
     << <<10, 13, 2, 14, 1, 8, 3, 5, 6, 7, 11, 0, 12, 4, 9, 15>>,
        <<10, 13, 2, 14, 8, 3, 11, 5, 1, 7, 15, 9, 6, 12, 4, 0>> >>,
     << <<1, 2, 5, 4, 7, 6, 3, 8, 0>>, SolvedBoard(3) >>}

\* the state in which solve is called on one of the given pairs of boards
SolveFrom(pairs) ==
    /\ size \in {3, 4}
    /\ \E pair \in pairs :
           /\ Len(pair[1]) = size * size
           /\ initialBoard = pair[1]
           /\ targetBoard = pair[2]
    /\ progressCallback \in BOOLEAN
    /\ goalPositions = <<>>
    /\ cur = boardToCompactState(initialBoard)
    /\ depth = 0
    /\ pc = "idle"
    /\ NewQueue
    /\ walked = <<>>
    /\ typed = <<>>
    /\ validated = NotCalled
    /\ converted = [kind |-> "none"]
    /\ heap = CallerHeap
    /\ GameIdle
    /\ outcome = Pending
    /\ tiers = [astar |-> "idle", ida |-> "idle", bfs |-> "idle"]
    /\ events = [called |-> FALSE, batch |-> <<>>]
    /\ openSet = <<>>
    /\ closedSet = {}
    /\ cameFrom = EmptyMap
    /\ gScore = EmptyMap
    /\ iterations = 0
    /\ initialHeuristic = 0
    /\ threshold = 0
    /\ iteration = 0
    /\ idaStack = <<>>
    /\ idaCall = NoCall
    /\ idaResult = NoResult
    /\ idaVisited = {}
    /\ pruned = {}
    /\ sinceYield = 0
    /\ queue = <<>>
    /\ bfsVisited = {}
    /\ bestHeuristic = 0

SearchInit == SolveFrom(SearchPairs)

SearchNext ==
    \/ Solve
    \/ AStarStart
    \/ AStarIterate
    \/ AStarResume

SpecSearch == SearchInit /\ [][SearchNext]_vars

(***************************************************************************)
(* The first two tiers followed to the end of idaStarAsync.  The 4 x 4     *)
(* pair has enhancedHeuristic 71 at the start (every row of the target is  *)
(* the start's row reversed), so the first threshold is already past the   *)
(* ceiling of the deepening loop; the 3 x 3 board is fifteen slides from   *)
(* its target.                                                             *)
(***************************************************************************)
DeepeningPairs ==
    {<< SolvedBoard(4),
        <<4, 3, 2, 1, 8, 7, 6, 5, 12, 11, 10, 9, 0, 15, 14, 13>> >>,
     << FifteenAway, SolvedBoard(3) >>}

DeepeningInit == SolveFrom(DeepeningPairs)

DeepeningNext ==
    \/ Solve
    \/ AStarStart
    \/ AStarIterate
    \/ AStarResume
    \/ IdaStart
    \/ IdaIterate
    \/ IdaResume
    \/ IdaSearch
    \/ IdaYieldResume
    \/ IdaIterEnd

SpecDeepening == DeepeningInit /\ [][DeepeningNext]_vars

(***************************************************************************)
(* solve followed into guidedBFS along the runs in which IDA* ends by its  *)
(* time limit before its first search, every loop followed for MaxFallback *)
(* iterations.  On the 4 x 4 pair guidedBFS dequeues entries whose paths   *)
(* have 45 moves; on the 3 x 3 board it returns a path.                    *)
(***************************************************************************)
MaxFallback == 150

FallbackPairs ==
    {<< <<11, 9, 12, 13, 0, 7, 6, 2, 8, 5, 4, 14, 15, 3, 1, 10>>,
        <<4, 1, 8, 11, 13, 14, 0, 9, 2, 6, 3, 7, 12, 5, 15, 10>> >>,
     << FifteenAway, SolvedBoard(3) >>}

FallbackInit == SolveFrom(FallbackPairs)

FallbackNext ==
    /\ iterations < MaxFallback
    /\ \/ Solve
       \/ AStarStart
       \/ AStarIterate
       \/ AStarResume
       \/ IdaStart
       \/ IdaIterate
       \/ BfsStart
       \/ BfsIterate
       \/ BfsResume

SpecFallback == FallbackInit /\ [][FallbackNext]_vars

(***************************************************************************)
(* validateBoardInput.  A text is a sequence of characters (strings of     *)
(* length one); the alphabet used is the decimal digits, the comma, the    *)
(* blank, the minus sign and letters.                                      *)
(***************************************************************************)
\* the value of a decimal digit, -1 for any other character
DigitOf(c) ==
    LET digits == <<"0", "1", "2", "3", "4", "5", "6", "7", "8", "9">>
    IN  IF \E d \in 1..Len(digits) : digits[d] = c
        THEN (CHOOSE d \in 1..Len(digits) : digits[d] = c) - 1
        ELSE -1

RECURSIVE SplitLoop(_, _, _, _)
\* String.prototype.split: the fields between the separators, empty ones
\* included
SplitLoop(text, separator, field, parts) ==
    IF text = <<>> THEN Append(parts, field)
    ELSE IF Head(text) = separator
    THEN SplitLoop(Tail(text), separator, <<>>, Append(parts, field))
    ELSE SplitLoop(Tail(text), separator, Append(field, Head(text)), parts)

split(text, separator) == SplitLoop(text, separator, <<>>, <<>>)

\* the text without its leading blanks
trimStart(s) ==
    LET inked == {i \in 1..Len(s) : s[i] # " "}
    IN  IF inked = {} THEN <<>>
        ELSE SubSeq(s, CHOOSE i \in inked : \A j \in inked : i <= j, Len(s))

\* String.prototype.trim: the text without its leading and trailing blanks
trim(s) ==
    LET inked == {i \in 1..Len(s) : s[i] # " "}
    IN  IF inked = {} THEN <<>>
        ELSE SubSeq(s, CHOOSE i \in inked : \A j \in inked : i <= j,
                       CHOOSE i \in inked : \A j \in inked : i >= j)

NaN == [isNaN |-> TRUE, num |-> 0]

RECURSIVE ParseDigits(_, _)
\* the value of the longest prefix of digits, after the digits read so far
ParseDigits(s, num) ==
    IF s # <<>> /\ DigitOf(Head(s)) >= 0
    THEN ParseDigits(Tail(s), num * 10 + DigitOf(Head(s)))
    ELSE num

\* parseInt(p) without radix, for texts that do not start with 0x: leading
\* blanks and one sign are skipped, then the digits are read up to the first
\* other character; NaN when there is no digit
parseInt(p) ==
    LET body == trimStart(p)
        signed == body # <<>> /\ Head(body) \in {"-", "+"}
        digits == IF signed THEN Tail(body) ELSE body
    IN  IF digits = <<>> \/ DigitOf(Head(digits)) < 0 THEN NaN
        ELSE [isNaN |-> FALSE,
              num |-> IF signed /\ Head(body) = "-"
                      THEN 0 - ParseDigits(digits, 0)
                      ELSE ParseDigits(digits, 0)]

ThrownError(message) == [kind |-> "thrown", numbers |-> <<>>, message |-> message]

\* validateBoardInput without the test of the Set's size
validateBoardInput_NoDuplicateTest(text, n) ==
    LET parts == [k \in 1..Len(split(text, ",")) |-> trim(split(text, ",")[k])]
        parsed == [k \in 1..Len(parts) |-> parseInt(parts[k])]
        numbers == [k \in 1..Len(parts) |-> parsed[k].num]
        values == {numbers[k] : k \in 1..Len(numbers)}
    IN  IF Len(parts) # n * n
        THEN ThrownError(<<"Board must have ", n * n, " values.">>)
        ELSE IF \E k \in 1..Len(parts) : parsed[k].isNaN
        THEN ThrownError(<<"Invalid number: ",
                           parts[CHOOSE k \in 1..Len(parts) :
                                     /\ parsed[k].isNaN
                                     /\ \A j \in 1..(k - 1) : ~parsed[j].isNaN]>>)
        ELSE IF \E i \in 0..(n * n - 1) : i \notin values
        THEN ThrownError(<<"Missing value: ",
                           CHOOSE i \in 0..(n * n - 1) :
                               /\ i \notin values
                               /\ \A j \in 0..(i - 1) : j \in values>>)
        ELSE [kind |-> "returned", numbers |-> numbers, message |-> <<>>]

validateBoardInput(text, n) ==
    LET parts == [k \in 1..Len(split(text, ",")) |-> trim(split(text, ",")[k])]
        parsed == [k \in 1..Len(parts) |-> parseInt(parts[k])]
        numbers == [k \in 1..Len(parts) |-> parsed[k].num]
        values == {numbers[k] : k \in 1..Len(numbers)}
    IN  IF Len(parts) # n * n
        THEN ThrownError(<<"Board must have ", n * n, " values.">>)
        ELSE IF \E k \in 1..Len(parts) : parsed[k].isNaN
        THEN ThrownError(<<"Invalid number: ",
                           parts[CHOOSE k \in 1..Len(parts) :
                                     /\ parsed[k].isNaN
                                     /\ \A j \in 1..(k - 1) : ~parsed[j].isNaN]>>)
        ELSE IF Cardinality(values) # Len(numbers)
        THEN ThrownError(<<"Duplicate values found.">>)
        ELSE IF \E i \in 0..(n * n - 1) : i \notin values
        THEN ThrownError(<<"Missing value: ",
                           CHOOSE i \in 0..(n * n - 1) :
                               /\ i \notin values
                               /\ \A j \in 0..(i - 1) : j \in values>>)
        ELSE [kind |-> "returned", numbers |-> numbers, message |-> <<>>]

\* the fields a caller writes between the commas, each with the integer it
\* denotes, if any
Fields ==
    {[text |-> <<"0">>, integer |-> TRUE, value |-> 0],
     [text |-> <<"1">>, integer |-> TRUE, value |-> 1],
     [text |-> <<"2">>, integer |-> TRUE, value |-> 2],
     [text |-> <<"3">>, integer |-> TRUE, value |-> 3],
     [text |-> <<" ", "0", "1", " ">>, integer |-> TRUE, value |-> 1],
     [text |-> <<"-", "2">>, integer |-> TRUE, value |-> -2],
     [text |-> <<"1", "3">>, integer |-> TRUE, value |-> 13],
     [text |-> <<"x">>, integer |-> FALSE, value |-> 0]}

RECURSIVE Joined(_)
\* the text of the fields with commas between them
Joined(fields) ==
    IF Len(fields) = 1 THEN fields[1].text
    ELSE Joined(SubSeq(fields, 1, Len(fields) - 1)) \o <<",">> \o fields[Len(fields)].text

ValidateInit ==
    /\ size = 2
    /\ initialBoard = SolvedBoard(2)
    /\ targetBoard = SolvedBoard(2)
    /\ goalPositions = GoalPositionsOf(targetBoard)
    /\ cur = boardToCompactState(initialBoard)
    /\ depth = 0
    /\ SolverIdle
    /\ GameIdle

\* validateBoardInput(text, size) is called, once, with the text of some
\* fields
ValidateCall ==
    /\ validated = NotCalled
    /\ \E fields \in UNION {[1..k -> Fields] : k \in (MaxFields - 2)..MaxFields} :
           /\ typed' = fields
           /\ validated' = validateBoardInput(Joined(fields), size)
    /\ UNCHANGED <<size, initialBoard, targetBoard, goalPositions, walkVars,
                   solveVars, pqVars, walked, converted, heap, gameVars>>

SpecValidate == ValidateInit /\ [][ValidateCall]_vars

(***************************************************************************)
(* boardToCompactState on its own, as solve calls it on its initialBoard   *)
(* argument before any test of the board: the argument is any array of     *)
(* size * size cells below size * size, with or without a zero.            *)
(***************************************************************************)
ConvertInit ==
    /\ size = 2
    /\ initialBoard \in [1..(size * size) -> 0..(size * size - 1)]
    /\ targetBoard = SolvedBoard(2)
    /\ goalPositions = GoalPositionsOf(targetBoard)
    /\ cur = boardToCompactState(targetBoard)
    /\ depth = 0
    /\ SolverIdle
    /\ GameIdle

\* const start = this.boardToCompactState(initialBoard): the call returns
\* its object; the function has no throw statement
ConvertCall ==
    /\ converted.kind = "none"
    /\ converted' = [kind |-> "returned", state |-> boardToCompactState(initialBoard)]
    /\ UNCHANGED <<size, initialBoard, targetBoard, goalPositions, walkVars,
                   solveVars, pqVars, walked, typed, validated, heap,
                   gameVars>>

SpecConvert == ConvertInit /\ [][ConvertCall]_vars

(***************************************************************************)
(* The game page: PuzzleGame (app.js) over a Puzzle (solver.js).  The      *)
(* puzzle is the record of the Puzzle object's fields; its board is the    *)
(* array of rows, board[row + 1][col + 1] for the source's board[row][col].*)
(* shuffle(moves = 100) draws every move with Math.random: it is the set   *)
(* of the puzzles its loop can leave, the number of moves held to          *)
(* MaxShuffle.                                                             *)
(***************************************************************************)
isValidPosition(p, row, col) ==
    row >= 0 /\ row < p.size /\ col >= 0 /\ col < p.size

RECURSIVE ShuffleLoop(_, _, _, _)
\* the for loop of shuffle from its i-th turn on; lastMove is the cell the
\* blank has just left
ShuffleLoop(p, lastMove, i, moves) ==
    IF i >= moves THEN {[p EXCEPT !.moveCount = 0]}
    ELSE LET steps == {[row |-> -1, col |-> 0], [row |-> 1, col |-> 0],
                       [row |-> 0, col |-> -1], [row |-> 0, col |-> 1]}
             validMoves ==
                 {move \in {[row |-> p.emptyPos.row + dir.row,
                             col |-> p.emptyPos.col + dir.col] : dir \in steps} :
                      /\ isValidPosition(p, move.row, move.col)
                      /\ move # lastMove}
             \* the swap of the blank with the tile at move
             swapped(move) ==
                 LET temp == p.board[move.row + 1][move.col + 1]
                     cleared == [p.board EXCEPT ![move.row + 1][move.col + 1] = 0]
                 IN  [p EXCEPT !.board = [cleared EXCEPT
                                    ![p.emptyPos.row + 1][p.emptyPos.col + 1] = temp],
                               !.emptyPos = move]
         IN  IF validMoves = {} THEN ShuffleLoop(p, lastMove, i + 1, moves)
             ELSE UNION {ShuffleLoop(swapped(move), p.emptyPos, i + 1, moves) :
                             move \in validMoves}

shuffle(p) == ShuffleLoop(p, NoPos, 0, MaxShuffle)

isSolved(p) == p.board = NewPuzzle(p.size).board

getBoardArray(p) ==
    [k \in 1..(p.size * p.size) |->
        p.board[((k - 1) \div p.size) + 1][((k - 1) % p.size) + 1]]

\* moveTile with the tile at (row, col) exchanged with the blank wherever
\* on the board it is, in the blank's row or column or not
moveTile_AnyCell(p, row, col) ==
    LET tile == p.board[row + 1][col + 1]
        cleared == [p.board EXCEPT ![row + 1][col + 1] = 0]
    IN  IF tile = 0
        THEN [moved |-> FALSE, puzzle |-> p]
        ELSE [moved |-> TRUE,
              puzzle |-> [p EXCEPT !.board = [cleared EXCEPT
                                      ![p.emptyPos.row + 1][p.emptyPos.col + 1] = tile],
                                   !.emptyPos = [row |-> row, col |-> col],
                                   !.moveCount = @ + 1]]

\* Puzzle.moveTile(row, col): whether it moved, and the puzzle it leaves
moveTile(p, row, col) ==
    LET emptyRow == p.emptyPos.row
        emptyCol == p.emptyPos.col
        canMoveTile == row = emptyRow \/ col = emptyCol
        \* getMovableTiles is empty exactly for the blank's own cell
        noTiles == row = emptyRow /\ col = emptyCol
        between(x, a, b) == (a < b /\ a < x /\ x <= b) \/ (b < a /\ b <= x /\ x < a)
        board ==
            IF row = emptyRow
            THEN LET direction == IF col < emptyCol THEN 1 ELSE -1
                 IN  [p.board EXCEPT ![row + 1] =
                         [c \in 1..p.size |->
                             IF c - 1 = col THEN 0
                             ELSE IF between(c - 1, col, emptyCol)
                                  THEN p.board[row + 1][c - direction]
                                  ELSE p.board[row + 1][c]]]
            ELSE LET direction == IF row < emptyRow THEN 1 ELSE -1
                 IN  [r \in 1..p.size |->
                         [p.board[r] EXCEPT ![col + 1] =
                             IF r - 1 = row THEN 0
                             ELSE IF between(r - 1, row, emptyRow)
                                  THEN p.board[r - direction][col + 1]
                                  ELSE p.board[r][col + 1]]]
    IN  IF ~canMoveTile \/ noTiles
        THEN [moved |-> FALSE, puzzle |-> p]
        ELSE [moved |-> TRUE,
              puzzle |-> [p EXCEPT !.board = board,
                                   !.emptyPos = [row |-> row, col |-> col],
                                   !.moveCount = @ + 1]]

\* PuzzleGame.shufflePuzzle
shufflePuzzle ==
    \E p \in shuffle(puzzle) :
        /\ puzzle' = p
        /\ game' = [startTime |-> "set", gameInProgress |-> TRUE,
                    initialState |-> getBoardArray(p), hasUserInteracted |-> FALSE]

\* the page once its script has run: new PuzzleGame(), which builds a
\* Puzzle(4) and shuffles it
GameInit ==
    /\ size = 4
    /\ initialBoard = SolvedBoard(4)
    /\ targetBoard = SolvedBoard(4)
    /\ goalPositions = GoalPositionsOf(targetBoard)
    /\ cur = boardToCompactState(initialBoard)
    /\ depth = 0
    /\ SolverIdle
    /\ \E p \in shuffle(NewPuzzle(4)) :
           /\ puzzle = p
           /\ game = [startTime |-> "set", gameInProgress |-> TRUE,
                      initialState |-> getBoardArray(p), hasUserInteracted |-> FALSE]
    /\ timers = 0
    /\ sinceReset = FALSE
    /\ acts = 0

\* the Shuffle button (or Play Again)
ShufflePuzzle ==
    /\ acts < MaxActs
    /\ acts' = acts + 1
    /\ shufflePuzzle
    /\ sinceReset' = FALSE
    /\ UNCHANGED <<size, initialBoard, targetBoard, goalPositions, walkVars,
                   solveVars, apartVars, timers>>

\* the Reset button (or New Challenge): the board is set solved and a timer
\* is left behind that will shuffle it
ResetPuzzle ==
    /\ acts < MaxActs
    /\ acts' = acts + 1
    /\ puzzle' = NewPuzzle(puzzle.size)
    /\ game' = [startTime |-> "null", gameInProgress |-> FALSE,
                initialState |-> <<>>, hasUserInteracted |-> FALSE]
    /\ timers' = timers + 1
    /\ sinceReset' = TRUE
    /\ UNCHANGED <<size, initialBoard, targetBoard, goalPositions, walkVars,
                   solveVars, apartVars>>

\* a timer of resetPuzzle fires: its callback is shufflePuzzle
ShuffleTimer ==
    /\ timers > 0
    /\ timers' = timers - 1
    /\ shufflePuzzle
    /\ UNCHANGED <<size, initialBoard, targetBoard, goalPositions, walkVars,
                   solveVars, apartVars, sinceReset, acts>>

\* the player slides from the cell (row, col): Puzzle.moveTile and the two
\* listeners of the page, 'move' and 'stateChange' (celebrateWin)
MoveTile ==
    /\ acts < MaxActs
    /\ acts' = acts + 1
    /\ \E row \in 0..(puzzle.size - 1), col \in 0..(puzzle.size - 1) :
           LET result == moveTile(puzzle, row, col)
               interacted == game.hasUserInteracted \/ game.gameInProgress
               won == /\ isSolved(result.puzzle)
                      /\ result.puzzle.moveCount > 0
                      /\ game.gameInProgress
                      /\ game.startTime # "null"
           IN  /\ puzzle' = result.puzzle
               /\ game' = IF ~result.moved THEN game
                          ELSE [game EXCEPT
                                   !.hasUserInteracted = interacted,
                                   !.gameInProgress = IF won THEN FALSE ELSE @]
    /\ sinceReset' = FALSE
    /\ UNCHANGED <<size, initialBoard, targetBoard, goalPositions, walkVars,
                   solveVars, apartVars, timers>>

GameNext ==
    \/ ShufflePuzzle
    \/ ResetPuzzle
    \/ ShuffleTimer
    \/ MoveTile

SpecGame == GameInit /\ [][GameNext]_vars

(***************************************************************************)
(* Properties.                                                             *)
(***************************************************************************)
Last(seq) == seq[Len(seq)]

RECURSIVE CloseUnder(_, _)
\* the boards of `seen` and all boards legal slides lead to from `frontier`
CloseUnder(frontier, seen) ==
    IF frontier = {} THEN seen
    ELSE Only({CloseUnder(reached \ seen, seen \cup reached) :
                   reached \in {UNION {
                       {getNeighborsOptimized(boardToCompactState(b))[k].board :
                            k \in 1..Len(getNeighborsOptimized(boardToCompactState(b)))} :
                       b \in frontier}}})

\* every board that legal slides reach from board b
SlideClosure(b) == CloseUnder({b}, {b})

CannotBeSolved == Thrown("This puzzle configuration cannot be solved.")
CouldNotFind == Thrown("Could not find a solution - this puzzle is really tricky!")
NoTierStarted == tiers = [astar |-> "idle", ida |-> "idle", bfs |-> "idle"]

\* C1 (as claimed, for the 2 x 2 boards, where reachability is computed by
\* closure): when the target can be reached from the initial board by legal
\* slides, solve returns a move list whose replay ends at the target.
C1_RoundTrip ==
    (pc = "done" /\ size = 2 /\ targetBoard \in SlideClosure(initialBoard)) =>
        /\ outcome.kind = "returned"
        /\ Last(applyMoves(initialBoard, outcome.moves)).board = targetBoard

\* C2: when isSolvable(initialBoard) is false, solve has thrown the 'cannot
\* be solved' error as soon as it has run at all: no tier was started and the
\* observer was never called.
C2_FailFast ==
    (pc # "idle" /\ ~isSolvable(initialBoard)) =>
        /\ pc = "done"
        /\ outcome = CannotBeSolved
        /\ NoTierStarted
        /\ ~events.called

\* C2 witness: an unsolvable initial board was rejected with an observer present
C2_Witness ==
    /\ pc = "done"
    /\ ~isSolvable(initialBoard)
    /\ progressCallback
    /\ outcome = CannotBeSolved

\* C3 (as claimed, for the 2 x 2 boards): when the target cannot be reached
\* from the initial board, solve fails with the unsolvable-configuration error
\* and no tier is ever started.
C3_JointParity ==
    (pc # "idle" /\ size = 2 /\ targetBoard \notin SlideClosure(initialBoard)) =>
        /\ pc = "done"
        /\ outcome = CannotBeSolved
        /\ NoTierStarted

\* C4: A* is the first tier started once validation has passed; IDA* is
\* started only after A* has ended without a path; the fallback only after A*
\* and IDA* both have; a tier that returns a path ends solve with that path and
\* no later tier is started.
C4_TierOrder ==
    /\ (pc \notin {"idle", "aStarAsync"} /\ outcome # CannotBeSolved)
           => tiers.astar # "idle"
    /\ tiers.ida # "idle" => tiers.astar \in {"A* failed", "A* timeout"}
    /\ tiers.bfs # "idle" =>
           /\ tiers.astar \in {"A* failed", "A* timeout"}
           /\ tiers.ida \in {"null", "IDA* timeout"}
    /\ tiers.astar = "path" =>
           /\ pc = "done"
           /\ outcome = Returned(reconstructPath(cameFrom, goal))
           /\ tiers.ida = "idle" /\ tiers.bfs = "idle"
    /\ tiers.ida = "path" =>
           /\ pc = "done"
           /\ outcome = Returned(idaResult.moves)
           /\ tiers.bfs = "idle"
    /\ tiers.bfs = "path" => (pc = "done" /\ outcome.kind = "returned")

\* C4 witness: the fallback found the path after A* and IDA* both gave up
C4_Witness ==
    /\ tiers.astar = "A* timeout"
    /\ tiers.ida = "IDA* timeout"
    /\ tiers.bfs = "path"

\* C5: the caller of solve sees no failure of the A* tier or of the IDA*
\* tier: what solve throws is either the unsolvable-configuration error of
\* the validation (no tier started) or the final error, raised after the
\* fallback has returned no path.
C5_FailureSurfacing ==
    /\ outcome.kind = "thrown" =>
           /\ pc = "done"
           /\ outcome \in {CannotBeSolved, CouldNotFind}
           /\ outcome = CannotBeSolved => NoTierStarted
           /\ outcome = CouldNotFind => tiers.bfs = "null"
    /\ (tiers.astar \in {"A* failed", "A* timeout"} /\ tiers.bfs = "idle")
           => outcome.kind # "thrown"
    /\ (tiers.ida \in {"null", "IDA* timeout"} /\ tiers.bfs = "idle")
           => outcome.kind # "thrown"

\* C5 witness: A* timed out and IDA* timed out, and solve went on to return
\* the fallback's path
C5_Witness ==
    /\ tiers.astar = "A* timeout"
    /\ tiers.ida = "IDA* timeout"
    /\ pc = "done"
    /\ outcome.kind = "returned"

\* C6: under fair scheduling solve settles for good in one terminal outcome
\* (a returned move list, the validation error or the final error), and the
\* loop counters never pass their caps.
C6_Terminates ==
    /\ <>[](/\ pc = "done"
            /\ \/ outcome.kind = "returned"
               \/ outcome = CannotBeSolved
               \/ outcome = CouldNotFind)
    /\ [](/\ iterations <= maxStates
          /\ tiers.astar = "running" => iterations <= maxIterations
          /\ iteration <= maxIdaIterations
          /\ pc # "done" <=> outcome = Pending)

\* C6 witness: a run that went through all three tiers and ended in the
\* final error
C6_Witness ==
    /\ pc = "done"
    /\ outcome = CouldNotFind
    /\ tiers.astar = "A* failed"
    /\ tiers.ida = "null"

\* C7 (as claimed): a path aStarAsync returns is no longer than any slide
\* sequence from the initial board to the target, here the one of `depth`
\* slides that the reference walk has followed.
C7_Optimal ==
    (tiers.astar = "path" /\ cur.board = targetBoard) =>
        Len(outcome.moves) <= depth

\* C8 (as claimed): the heuristic of a board never exceeds the number of
\* slides of any slide sequence that takes it to the target, in particular
\* of a shortest one.
C8_Admissible ==
    (cur.board = targetBoard) =>
        enhancedHeuristic(boardToCompactState(initialBoard)) <= depth

\* C9 (as claimed): the heuristic drops by at most one along any slide.
C9_Consistent ==
    \A k \in 1..Len(getNeighborsOptimized(cur)) :
        enhancedHeuristic(cur) <= 1 + enhancedHeuristic(getNeighborsOptimized(cur)[k])

\* C10: isSolvable is true of every board legal slides reach from the solved
\* board, false of every board they reach from the solved board with its last
\* two tiles exchanged (that board included), a slide can always be undone,
\* and for the 2 x 2 boards isSolvable(board) holds exactly when the solved
\* board is among the boards legal slides reach from it.
C10_IsSolvable ==
    /\ initialBoard = SolvedBoard(size) => isSolvable(cur.board)
    /\ initialBoard = SwappedBoard(size) => ~isSolvable(cur.board)
    /\ \A k \in 1..Len(getNeighborsOptimized(cur)) :
           \E m \in 1..Len(getNeighborsOptimized(getNeighborsOptimized(cur)[k])) :
               getNeighborsOptimized(getNeighborsOptimized(cur)[k])[m].board = cur.board
    /\ size = 2 => (isSolvable(cur.board) <=> SolvedBoard(2) \in SlideClosure(cur.board))

\* C10 witness: a 4 x 4 board MaxWalk slides away from the swapped board
C10_Witness ==
    /\ size = 4
    /\ initialBoard = SwappedBoard(4)
    /\ depth = MaxWalk
    /\ cur.emptyIndex \div size # 3

\* C11: a legal slide never changes what isSolvable reports: the value on
\* every neighbor of the board a walk stands on is the value on that board.
C11_SolvabilityClosure ==
    \A k \in 1..Len(getNeighborsOptimized(cur)) :
        isSolvable(getNeighborsOptimized(cur)[k].board) = isSolvable(cur.board)

\* C11 witness: a 4 x 4 board reached by a vertical slide, with the blank
\* away from the last row, that has neighbors above and below
C11_Witness ==
    /\ size = 4
    /\ depth > 0
    /\ cur.lastMove.direction \in {"up", "down"}
    /\ RowOf(cur.emptyIndex) \in {1, 2}
    /\ Len(getNeighborsOptimized(cur)) >= 3

\* C12 (as claimed): solve(B, B) returns the empty move list, and replaying
\* the empty list on B gives the one state of B.
C12_Identity ==
    (pc = "done" /\ initialBoard = targetBoard) =>
        /\ outcome = Returned(<<>>)
        /\ applyMoves(initialBoard, <<>>) = <<boardToCompactState(initialBoard)>>

\* the cell <<row, col>> of a board index
CellOf(index) == <<RowOf(index), ColOf(index)>>

\* the name of the motion that takes a tile from one cell to another
MotionName(from, to) ==
    IF to[1] = from[1] + 1 /\ to[2] = from[2] THEN "down"
    ELSE IF to[1] = from[1] - 1 /\ to[2] = from[2] THEN "up"
    ELSE IF to[1] = from[1] /\ to[2] = from[2] + 1 THEN "right"
    ELSE IF to[1] = from[1] /\ to[2] = from[2] - 1 THEN "left"
    ELSE "none"

\* the board after the tile at index t took the place of the blank at index e
Slid(board, e, t) ==
    [i \in 1..Len(board) |-> IF i - 1 = e THEN At(board, t)
                             ELSE IF i - 1 = t THEN 0
                             ELSE board[i]]

\* the target is the initial board after one legal slide of the tile at
\* index t into the blank
OneSlideApart(t) ==
    /\ t # start.emptyIndex
    /\ MotionName(CellOf(t), CellOf(start.emptyIndex)) # "none"
    /\ targetBoard = Slid(initialBoard, start.emptyIndex, t)

\* C13 (as claimed): when the target is one legal slide away from an initial
\* board isSolvable accepts, solve returns exactly one move: its value is the
\* tile that slid, from is the cell the tile was in, to is the cell the blank
\* was in, and direction names the motion of the tile.
C13_SingleMove ==
    \A t \in 0..(totalCells - 1) :
        (pc = "done" /\ isSolvable(initialBoard) /\ OneSlideApart(t)) =>
            outcome = Returned(<< [from |-> CellOf(t),
                                   to |-> CellOf(start.emptyIndex),
                                   value |-> At(initialBoard, t),
                                   direction |-> MotionName(CellOf(t),
                                                            CellOf(start.emptyIndex))] >>)

\* the positions in which the steps of solve that call enhancedHeuristic
\* whatever the state (the first statements of idaStarAsync, idaSearch and
\* guidedBFS) are taken
EvaluatesFrom == {"idaStarAsync", "idaWait", "idaSearch", "guidedBFS"}

\* C14 (as claimed): when another solve call on the same solver, with another
\* target, runs while this one is suspended, every step of this invocation
\* that evaluates the heuristic reads goal positions derived from its own
\* target board.
C14_GoalIsolation ==
    [][(pc \in EvaluatesFrom /\ goalPositions' = goalPositions) =>
           goalPositions = GoalPositionsOf(targetBoard)]_vars

\* C15 (as claimed): two boards have the same key exactly when they are the
\* same board; checked for the board of a walk against the walk's first
\* board and against each board one slide away.
C15_KeysCollisionFree ==
    \A other \in {start} \cup {getNeighborsOptimized(cur)[k] :
                                   k \in 1..Len(getNeighborsOptimized(cur))} :
        (stateToNumber(other) = stateToNumber(cur)) <=> (other.board = cur.board)

\* C16: after any sequence of enqueue and dequeue calls the element list is
\* sorted ascending by priority, with elements of equal priority in the order
\* of their enqueue calls; dequeue and peek return the item at the head of
\* the list, of minimum priority, and dequeue removes it and nothing else; on
\* an empty queue both return no item and leave the queue empty.
C16_QueueOrder ==
    /\ [](\A i, j \in 1..Len(pq) :
              i < j => \/ pq[i].priority < pq[j].priority
                       \/ /\ pq[i].priority = pq[j].priority
                          /\ pq[i].item.seq < pq[j].item.seq)
    /\ [][enqueued' = enqueued =>
              /\ taken' = peek(pq)
              /\ pq # <<>> =>
                     /\ \A i \in 1..Len(pq) : pq[1].priority <= pq[i].priority
                     /\ taken' = pq[1].item
                     /\ pq' \in {pq, Tail(pq)}
              /\ pq = <<>> => (taken' = NoItem /\ pq' = <<>>)]_vars

\* C16 witness: the queue holds an element enqueued after, and placed before,
\* another one, two elements of equal priority, and an item was taken from it
C16_Witness ==
    /\ taken # NoItem
    /\ \E i, j \in 1..Len(pq) : i < j /\ pq[i].item.seq > pq[j].item.seq
    /\ \E i, j \in 1..Len(pq) : i < j /\ pq[i].priority = pq[j].priority

\* the boards one slide from cur, one for each cell at the given offsets
\* <<rows, columns>> from the blank that lies on the board, in their order
BoardsAt(offsets) ==
    LET e == cur.emptyIndex
        on == SelectSeq(offsets,
                  LAMBDA o : OnBoard(RowOf(e) + o[1], ColOf(e) + o[2]))
    IN  [k \in 1..Len(on) |->
            Slid(cur.board, e, (RowOf(e) + on[k][1]) * size + ColOf(e) + on[k][2])]

NeighborBoards ==
    [k \in 1..Len(getNeighborsOptimized(cur)) |-> getNeighborsOptimized(cur)[k].board]

NeighborNames ==
    [k \in 1..Len(getNeighborsOptimized(cur)) |->
        getNeighborsOptimized(cur)[k].lastMove.direction]

\* C17 (as claimed): the successors come in the order down, up, right, left
\* from the blank's perspective: the one obtained with the cell below the
\* blank first when it exists, then the cell above, then right, then left.
C17_BlankOrder ==
    NeighborBoards = BoardsAt(<< <<1, 0>>, <<-1, 0>>, <<0, 1>>, <<0, -1>> >>)

\* C17 (amended): the successors come in the order down, up, right, left of
\* the moved tile's direction: the one obtained with the cell above the blank
\* first when it exists (its tile moves down), then the cell below, then the
\* cell left of the blank (its tile moves right), then the cell right of it.
C17_TileOrder ==
    /\ NeighborBoards = BoardsAt(<< <<-1, 0>>, <<1, 0>>, <<0, -1>>, <<0, 1>> >>)
    /\ NeighborNames = SelectSeq(<<"down", "up", "right", "left">>,
                           LAMBDA n : \E k \in 1..Len(NeighborNames) :
                                          NeighborNames[k] = n)

\* C17 witness: a 4 x 4 board reached by slides whose blank has all four
\* neighbors
C17_Witness ==
    /\ size = 4
    /\ depth > 0
    /\ Len(getNeighborsOptimized(cur)) = 4

\* C18: every move getNeighborsOptimized produces goes from the cell of a
\* tile next to the blank (same row or column, one apart) to the blank's
\* cell, its value is the non-zero tile at `from`, and its direction is the
\* direction of to - from, the tile's displacement: up when the row
\* decreases, down when it increases, left when the column decreases, right
\* when it increases.
C18_MoveSemantics ==
    \A k \in 1..Len(getNeighborsOptimized(cur)) :
        LET move == getNeighborsOptimized(cur)[k].lastMove
            dRow == move.to[1] - move.from[1]
            dCol == move.to[2] - move.from[2]
        IN  /\ OnBoard(move.from[1], move.from[2])
            /\ Abs(dRow) + Abs(dCol) = 1
            /\ move.to = CellOf(cur.emptyIndex)
            /\ At(cur.board, move.to[1] * size + move.to[2]) = 0
            /\ move.value = At(cur.board, move.from[1] * size + move.from[2])
            /\ move.value # 0
            /\ move.direction = (IF dRow = -1 THEN "up"
                                 ELSE IF dRow = 1 THEN "down"
                                 ELSE IF dCol = -1 THEN "left"
                                 ELSE "right")

\* C18 witness: a board reached by slides, with moves in all four directions
C18_Witness ==
    /\ depth > 0
    /\ size = 3
    /\ {getNeighborsOptimized(cur)[k].lastMove.direction :
            k \in 1..Len(getNeighborsOptimized(cur))} = {"up", "down", "left", "right"}

\* a state whose board is a permutation of 0..N*N-1 (so with one zero) and
\* whose emptyIndex is the index of the zero
WellFormed(state) ==
    /\ Len(state.board) = totalCells
    /\ \A v \in 0..(totalCells - 1) :
           Cardinality({i \in 1..totalCells : state.board[i] = v}) = 1
    /\ state.emptyIndex \in 0..(totalCells - 1)
    /\ At(state.board, state.emptyIndex) = 0

\* C19 (as claimed): the state boardToCompactState makes of a valid board,
\* the states getNeighborsOptimized makes from such a state, and the states
\* applyMoves makes with moves generated by the solver (the moves of its
\* successors along a walk, the move list solve returns) all have a
\* permutation of 0..N*N-1 as board and the index of its zero as emptyIndex.
C19_StateInvariant ==
    /\ WellFormed(boardToCompactState(initialBoard))
    /\ WellFormed(cur)
    /\ \A k \in 1..Len(getNeighborsOptimized(cur)) :
           WellFormed(getNeighborsOptimized(cur)[k])
    /\ \A states \in {applyMoves(initialBoard, walked)} :
           \A i \in 1..Len(states) : WellFormed(states[i])
    /\ (pc = "done" /\ outcome.kind = "returned") =>
           \A states \in {applyMoves(initialBoard, outcome.moves)} :
               \A i \in 1..Len(states) : WellFormed(states[i])

\* C20: for a board and a list of k moves, each legal in the board reached
\* so far, applyMoves returns k + 1 states; the first has the initial board;
\* each next one is the state before it with the blank and the tile of the
\* move exchanged, so the last is the board the moves lead to; and the result
\* for a prefix of the list is a prefix of the result for the list.
C20_Replay ==
    \A states \in {applyMoves(initialBoard, walked)} :
        /\ Len(states) = Len(walked) + 1
        /\ states[1].board = initialBoard
        /\ \A i \in 1..Len(walked) :
               /\ At(states[i].board,
                     walked[i].from[1] * size + walked[i].from[2]) = walked[i].value
               /\ CellOf(states[i].emptyIndex) = walked[i].to
               /\ states[i + 1].board =
                      Slid(states[i].board, states[i].emptyIndex,
                           walked[i].from[1] * size + walked[i].from[2])
        /\ states[Len(states)].board = cur.board
        /\ \A j \in 0..Len(walked) :
               applyMoves(initialBoard, SubSeq(walked, 1, j)) = SubSeq(states, 1, j + 1)

\* C20 witness: a 4 x 4 walk of MaxWalk moves in which a tile moved twice
C20_Witness ==
    /\ size = 4
    /\ Len(walked) = MaxWalk
    /\ Len(applyMoves(initialBoard, walked)) = MaxWalk + 1
    /\ \E i, j \in 1..Len(walked) : i < j /\ walked[i].value = walked[j].value

\* C21: for a text whose fields are integers, validateBoardInput returns the
\* integers of the fields, in order, exactly when there are n*n of them, all
\* distinct and covering 0..n*n-1; it throws the wrong-count error when the
\* number of fields is not n*n, the duplicate-value error when the count is
\* right and a value is repeated, and some error otherwise; what it returns
\* is a valid board.
C21_ValidateAcceptance ==
    (typed # <<>> /\ \A k \in 1..Len(typed) : typed[k].integer) =>
        LET values == [k \in 1..Len(typed) |-> typed[k].value]
            distinct == \A i, j \in 1..Len(values) : i # j => values[i] # values[j]
            covering == {values[k] : k \in 1..Len(values)} = 0..(size * size - 1)
        IN  /\ (validated.kind = "returned") <=>
                   (Len(values) = size * size /\ distinct /\ covering)
            /\ validated.kind = "returned" =>
                   (validated.numbers = values /\ IsValidBoard(validated.numbers, size))
            /\ validated.kind # "returned" => validated.kind = "thrown"
            /\ Len(values) # size * size =>
                   validated = ThrownError(<<"Board must have ", size * size, " values.">>)
            /\ (Len(values) = size * size /\ ~distinct) =>
                   validated = ThrownError(<<"Duplicate values found.">>)

\* C21 witness: a text of four integer fields, one written with blanks and a
\* leading zero, was accepted
C21_Witness ==
    /\ validated.kind = "returned"
    /\ \E k \in 1..Len(typed) : Len(typed[k].text) > 1

\* C22: converting a board array to a state fails with a malformed-board
\* error whenever the array does not hold exactly one zero (no zero, or more
\* than one): once boardToCompactState has been called on such an array the
\* call has thrown and no state came out of it.
C22_MalformedRejected ==
    (/\ converted.kind # "none"
     /\ Cardinality({i \in 1..Len(initialBoard) : initialBoard[i] = 0}) # 1)
        => converted.kind = "thrown"

\* C23: every progress event passed to the observer during a run of solve,
\* by the orchestrator or by any of the three tiers, that carries a progress
\* field has 0 <= progress <= 100.
C23_ProgressRange ==
    \A k \in 1..Len(events.batch) :
        LET event == events.batch[k]
        IN  event.den # 0 =>
                /\ 0 <= event.num
                /\ event.num <= 100 * event.den

\* the observer was told a progress that is not a whole number
C23_Witness ==
    /\ events.called
    /\ \E k \in 1..Len(events.batch) :
           /\ events.batch[k].den > 1
           /\ events.batch[k].num % events.batch[k].den # 0

\* C24: after Reset (PuzzleGame.resetPuzzle), once every timer it scheduled
\* has fired and the player has done nothing since, the board is the solved
\* board (1..15 then the blank) and the move count is 0.
C24_ResetSolved ==
    (sinceReset /\ timers = 0) =>
        /\ getBoardArray(puzzle) = SolvedBoard(4)
        /\ puzzle.moveCount = 0

\* C25 (as claimed): whenever a tier (aStarAsync, idaStarAsync or guidedBFS)
\* has returned a move list, replaying it from the initial board is a
\* sequence of legal single-tile slides (the tile of each move is next to
\* the blank, which is at the move's destination) and the board after the
\* last move is the target board, cell by cell.
C25_TierSound ==
    (pc = "done" /\ outcome.kind = "returned") =>
        \A states \in {applyMoves(initialBoard, outcome.moves)} :
            /\ \A i \in 1..Len(outcome.moves) :
                   LET move == outcome.moves[i]
                   IN  /\ move.value # 0
                       /\ At(states[i].board, move.from[1] * size + move.from[2])
                              = move.value
                       /\ CellOf(states[i].emptyIndex) = move.to
                       /\ MotionName(move.from, move.to) # "none"
            /\ Last(states).board = targetBoard

\* C26: at every point of an A* run every entry of the open set has a
\* priority f = g + h of at most initialHeuristic + 15, no gScore entry is
\* above that bound and every key with a cameFrom entry has a gScore entry
\* (a neighbor beyond the bound gets neither); and every path A* returns has
\* at most initialHeuristic + 15 moves.
C26_PruningBound ==
    /\ \A i \in 1..Len(openSet) : openSet[i].priority <= initialHeuristic + 15
    /\ \A key \in DOMAIN gScore : gScore[key] <= initialHeuristic + 15
    /\ DOMAIN cameFrom \subseteq DOMAIN gScore
    /\ tiers.astar = "path" => Len(outcome.moves) <= initialHeuristic + 15

\* A* is running and a state of its open set has a neighbor whose f is
\* beyond the bound
C26_Witness ==
    /\ tiers.astar = "running"
    /\ \E i \in 1..Len(openSet) :
           LET item == openSet[i].item
               g == openSet[i].priority - enhancedHeuristic(item)
               neighbors == getNeighborsOptimized(item)
           IN  \E k \in 1..Len(neighbors) :
                   g + 1 + enhancedHeuristic(neighbors[k]) > initialHeuristic + 15

RECURSIVE LinksToStart(_, _, _)
\* following the links of parent from key comes, within fuel links, to a
\* key without a link, and that key is the key of the start state
LinksToStart(parent, key, fuel) ==
    IF key \notin DOMAIN parent THEN key = stateToNumber(start)
    ELSE IF fuel = 0 THEN FALSE
    ELSE LinksToStart(parent, parent[key], fuel - 1)

\* C27 (as claimed): at every point of an A* run the start key has no
\* cameFrom entry; following cameFrom links from any recorded key reaches
\* the start key in finitely many steps, without a cycle; and when A*
\* returns, the returned path has exactly gScore(goal) moves.
C27_PredecessorChain ==
    /\ stateToNumber(start) \notin DOMAIN cameFrom
    /\ \A parent \in {[key \in DOMAIN cameFrom |->
                          stateToNumber(cameFrom[key].state)] @@ EmptyMap} :
           \A key \in DOMAIN parent :
               LinksToStart(parent, key, Cardinality(DOMAIN parent))
    /\ tiers.astar = "path" =>
           /\ stateToNumber(goal) \in DOMAIN gScore
           /\ Len(outcome.moves) = gScore[stateToNumber(goal)]

\* A* has returned a path of several moves out of a cameFrom map that holds
\* keys off that path
C27_Witness ==
    /\ tiers.astar = "path"
    /\ Len(outcome.moves) > 1
    /\ Cardinality(DOMAIN cameFrom) > Len(outcome.moves)

\* C28: A* is suspended only at the head of a loop pass whose count is a
\* multiple of 25, before the dequeue (the open set is as the pass before
\* left it, not empty), and the fallback only at the head of a pass whose
\* count is a multiple of 100; at every such point every state of the A*
\* open set has a gScore entry for its key and every state of the
\* fallback's queue has its key in the visited set.
C28_SuspensionPoints ==
    /\ pc = "astarWait" =>
           /\ iterations > 0
           /\ iterations % 25 = 0
           /\ openSet # <<>>
           /\ \A i \in 1..Len(openSet) :
                  stateToNumber(openSet[i].item) \in DOMAIN gScore
    /\ pc = "bfsWait" =>
           /\ iterations > 0
           /\ iterations % 100 = 0
           /\ queue # <<>>
           /\ \A i \in 1..Len(queue) :
                  stateToNumber(queue[i].item.state) \in bfsVisited

\* the fallback is suspended with several states in its queue
C28_Witness ==
    /\ pc = "bfsWait"
    /\ Len(queue) > 1
    /\ tiers.astar # "idle"

\* the positions of an IDA* deepening iteration, from the timer before the
\* search on start to the value the search returned
InIteration == {"idaWait", "idaSearch", "idaYield", "idaResult"}

\* C29: the first deepening iteration of IDA* uses the threshold h(start)
\* and an iteration keeps its threshold; each later iteration uses the
\* least f = g + h over the branches the iteration before it pruned, which
\* is above the threshold of that iteration; and when no branch was pruned
\* (the minimum is infinite) IDA* stops without a path.
C29_ThresholdProgression ==
    /\ []((pc \in InIteration /\ iteration = 1) =>
              threshold = enhancedHeuristic(start))
    /\ [][(pc \in InIteration /\ pc' \in InIteration) =>
              threshold' = threshold]_vars
    /\ [][(pc = "idaResult" /\ pc' = "idaLoop") =>
              /\ pruned # {}
              /\ threshold' \in pruned
              /\ \A f \in pruned : threshold' <= f
              /\ threshold' > threshold]_vars
    /\ [][(pc = "idaResult" /\ ~idaResult.isPath /\ pruned = {}) =>
              /\ idaResult.value = Infinity
              /\ tiers'.ida = "null"
              /\ outcome' = Pending
              /\ pc' = "guidedBFS"]_vars

\* a second deepening iteration is under way, its threshold the least of
\* several values pruned before
C29_Witness ==
    /\ pc = "idaSearch"
    /\ iteration = 2
    /\ threshold > enhancedHeuristic(start)
    /\ pruned # {}

\* the keys of the states that have a frame of idaSearch on the stack
StackKeys == {stateToNumber(idaStack[i].state) : i \in 1..Len(idaStack)}

\* C30: at the entry of every idaSearch call the visited set is exactly the
\* set of the keys of the states on the current path from the start (the
\* states with a call in progress, one slide from each to the next, the
\* state of the call entered not among them); a call that returns a value
\* that is not a solution leaves the visited set as it was when the call
\* was entered (empty, for the call idaStarAsync makes).
C30_VisitedPathScoped ==
    /\ [](pc = "idaSearch" =>
              /\ idaVisited = StackKeys
              /\ Cardinality(StackKeys) = Len(idaStack)
              /\ idaCall.g = Len(idaStack)
              /\ idaStack # <<>> => idaStack[1].state.board = initialBoard
              /\ \A i \in 1..Len(idaStack) :
                     \E next \in {IF i < Len(idaStack) THEN idaStack[i + 1].state
                                   ELSE idaCall.state} :
                         \E neighbors \in {getNeighborsOptimized(idaStack[i].state)} :
                             \E k \in 1..Len(neighbors) : neighbors[k] = next)
    /\ []((pc = "idaResult" /\ ~idaResult.isPath) => idaVisited = {})
    /\ [][(pc = "idaSearch" /\ pc' = "idaSearch"
              /\ Len(idaStack') = Len(idaStack)) => idaVisited' = idaVisited]_vars

\* a call of idaSearch is entered three slides or more from the start
C30_Witness ==
    /\ pc = "idaSearch"
    /\ Len(idaStack) >= 3
    /\ Cardinality(idaVisited) >= 3

(***************************************************************************)
(* C31.  IDA* bounds.  A deepening iteration runs only with a threshold    *)
(* below 70 and there are never more than 30 of them; a path returned by   *)
(* IDA* has no more moves than the threshold of the iteration that found   *)
(* it, hence fewer than 70; and when the head of the loop finds a ceiling  *)
(* reached, the tier ends with null, no outcome is produced, and solve     *)
(* goes on to guidedBFS.                                                   *)
(***************************************************************************)
C31_IdaBounds ==
    /\ [](/\ pc \in InIteration =>
                 threshold < maxThreshold /\ iteration <= maxIdaIterations
          /\ tiers.ida = "path" =>
                 /\ outcome.kind = "returned"
                 /\ Len(outcome.moves) <= threshold
                 /\ Len(outcome.moves) < maxThreshold)
    /\ [][(pc = "idaLoop"
             /\ (threshold >= maxThreshold \/ iteration >= maxIdaIterations)) =>
              /\ pc' = "guidedBFS"
              /\ tiers'.ida = "null"
              /\ outcome' = Pending]_vars

\* the first threshold was 71: no iteration ran, the tier ended with null
\* and the fallback is next
C31_Witness ==
    /\ pc = "guidedBFS"
    /\ tiers.ida = "null"
    /\ outcome = Pending
    /\ enhancedHeuristic(start) >= maxThreshold

\* the cadence named by the comment above the timer in idaSearch
idaYieldEvery == 10

(***************************************************************************)
(* C32.  IDA* suspension cadence.  Inside a deepening iteration idaSearch  *)
(* waits for a timer at least once in every 10 consecutive calls: the      *)
(* number of calls entered since the last timer never exceeds 10.          *)
(***************************************************************************)
C32_SuspensionCadence ==
    pc \in InIteration => sinceYield <= idaYieldEvery

\* the entries of guidedBFS's queue, and their keys
QueueEntries(q) == {q[i] : i \in 1..Len(q)}
EntryKeys(q) == {stateToNumber(e.item.state) : e \in QueueEntries(q)}

(***************************************************************************)
(* C33.  Fallback queue invariants.  During a guidedBFS run the entries    *)
(* in the queue have pairwise different state keys, all of them in the     *)
(* visited set; an entry's priority is enhancedHeuristic of its state plus *)
(* the length of its path; replaying its path from the start board with    *)
(* applyMoves ends on its state's board and blank.  Every step of the run  *)
(* keeps the visited set growing and creates entries only for keys that    *)
(* were not in it and are in it afterwards, so no key is ever given to two *)
(* entries.                                                                *)
(***************************************************************************)
C33_QueueInvariants ==
    /\ [](/\ EntryKeys(queue) \subseteq bfsVisited
          /\ \A i, j \in 1..Len(queue) :
                 i # j => stateToNumber(queue[i].item.state)
                              # stateToNumber(queue[j].item.state)
          /\ \A e \in QueueEntries(queue) :
                 /\ e.priority = enhancedHeuristic(e.item.state) + Len(e.item.path)
                 /\ \A end \in {Last(applyMoves(initialBoard, e.item.path))} :
                        /\ end.board = e.item.state.board
                        /\ end.emptyIndex = e.item.state.emptyIndex)
    /\ [][/\ bfsVisited \subseteq bfsVisited'
          /\ \A e \in QueueEntries(queue') \ QueueEntries(queue) :
                 /\ stateToNumber(e.item.state) \notin bfsVisited
                 /\ stateToNumber(e.item.state) \in bfsVisited']_vars

\* the run has expanded states and holds entries with paths of several moves
C33_Witness ==
    /\ pc = "bfsLoop"
    /\ iterations >= 3
    /\ Len(queue) >= 3
    /\ \E e \in QueueEntries(queue) : Len(e.item.path) >= 3

\* the positions of guidedBFS's while loop
InFallback == {"bfsLoop", "bfsWait"}

(***************************************************************************)
(* C34.  Fallback caps.  No entry of guidedBFS's queue and no path it      *)
(* returns has more than 45 moves, and an entry whose path has 45 moves is *)
(* dequeued without being expanded: the queue only loses it and the        *)
(* visited set stays as it was.  The loop dequeues at most 60000 states.   *)
(* When guidedBFS has ended without a path solve has thrown its final      *)
(* error, and the head of the loop ends that way as soon as it finds the   *)
(* queue empty or 60000 states dequeued.                                   *)
(***************************************************************************)
C34_FallbackCaps ==
    /\ [](/\ \A e \in QueueEntries(queue) : Len(e.item.path) <= maxPathLength
          /\ tiers.bfs = "path" =>
                 /\ outcome.kind = "returned"
                 /\ Len(outcome.moves) <= maxPathLength
          /\ pc \in InFallback => iterations <= maxStates
          /\ tiers.bfs = "null" => outcome = CouldNotFind /\ pc = "done")
    /\ [][(/\ pc \in InFallback
           /\ queue # <<>>
           /\ Len(queue[1].item.path) >= maxPathLength
           /\ queue' # queue) =>
              /\ queue' = Tail(queue)
              /\ bfsVisited' = bfsVisited]_vars
    /\ [][(pc = "bfsLoop" /\ (queue = <<>> \/ iterations >= maxStates)) =>
              /\ tiers'.bfs = "null"
              /\ outcome' = CouldNotFind]_vars

\* past the first timer of the loop the entry at the head of the queue has a
\* path of 45 moves: the next pass dequeues it and does not expand it
C34_Witness ==
    /\ pc = "bfsLoop"
    /\ iterations > 100
    /\ bestHeuristic < enhancedHeuristic(start)
    /\ queue # <<>>
    /\ Len(queue[1].item.path) = maxPathLength

(***************************************************************************)
(* The arrays behind the states.  A board of a state is an array, and a    *)
(* JavaScript array is held by reference: two states whose board is the    *)
(* same array change together.  heap.mem is the memory, one array per       *)
(* address; the board of a state in heap.held is an address.  solve itself *)
(* reads its two arguments (isSolvable builds its own flatBoard) and hands *)
(* the searches the two states boardToCompactState made of them; the       *)
(* searches reach further states through getNeighborsOptimized alone.      *)
(***************************************************************************)
MaxAlias == 4

\* slice with the array itself returned, no copy made
slice_Shared(mem, a) == [mem |-> mem, ref |-> a]

\* array.slice(): a new array with the cells of the array at address a
slice(mem, a) == [mem |-> Append(mem, mem[a]), ref |-> Len(mem) + 1]

\* array[index] = value on the array at address a
WriteOn(mem, a, index, value) == [mem EXCEPT ![a][index + 1] = value]

\* boardToCompactState(boardArray) on the array at address a
ConvertOn(mem, a) ==
    LET copy == slice(mem, a)
    IN  [mem |-> copy.mem,
         state |-> [board |-> copy.ref,
                    emptyIndex |-> FirstZero(mem[a]),
                    lastMove |-> NoMove]]

\* the loop body of getNeighborsOptimized for one direction on the board
NeighborOn(mem, state, dir) ==
    LET emptyIndex == state.emptyIndex
        emptyRow == RowOf(emptyIndex)
        emptyCol == ColOf(emptyIndex)
        newRow == emptyRow + dir.row
        newCol == emptyCol + dir.col
        tileIndex == newRow * size + newCol
        copy == slice(mem, state.board)
        newBoard == copy.ref
        tileValue == At(copy.mem[newBoard], tileIndex)
        swapped == WriteOn(WriteOn(copy.mem, newBoard, emptyIndex, tileValue),
                           newBoard, tileIndex, 0)
    IN  [mem |-> swapped,
         state |-> [board |-> newBoard,
                    emptyIndex |-> tileIndex,
                    lastMove |-> [from |-> <<newRow, newCol>>,
                                  to |-> <<emptyRow, emptyCol>>,
                                  value |-> tileValue,
                                  direction |-> dir.name]]]

RECURSIVE NeighborsLoop(_, _, _, _)
NeighborsLoop(mem, state, dirs, neighbors) ==
    IF dirs = <<>> THEN [mem |-> mem, states |-> neighbors]
    ELSE IF OnBoard(RowOf(state.emptyIndex) + Head(dirs).row,
                    ColOf(state.emptyIndex) + Head(dirs).col)
    THEN Only({NeighborsLoop(made.mem, state, Tail(dirs), Append(neighbors, made.state)) :
                   made \in {NeighborOn(mem, state, Head(dirs))}})
    ELSE NeighborsLoop(mem, state, Tail(dirs), neighbors)

\* getNeighborsOptimized(state) on the memory
NeighborsOn(mem, state) == NeighborsLoop(mem, state, directions, <<>>)

RECURSIVE ApplyOnLoop(_, _, _, _)
ApplyOnLoop(mem, currentBoard, moves, states) ==
    IF moves = <<>> THEN [mem |-> mem, states |-> states]
    ELSE LET move == Head(moves)
             fromIndex == move.from[1] * size + move.from[2]
             toIndex == move.to[1] * size + move.to[2]
             written == WriteOn(WriteOn(mem, currentBoard, toIndex, move.value),
                                currentBoard, fromIndex, 0)
         IN  Only({ApplyOnLoop(made.mem, currentBoard, Tail(moves),
                               Append(states, made.state)) :
                       made \in {ConvertOn(written, currentBoard)}})

\* applyMoves(initialBoard, moves) on the array at address a
ApplyOn(mem, a, moves) ==
    LET first == ConvertOn(mem, a)
        currentBoard == slice(first.mem, a)
    IN  ApplyOnLoop(currentBoard.mem, currentBoard.ref, moves, <<first.state>>)

\* what is kept of the states a call returned: the state, the cells of its
\* board at the return, the call, the argument of solve it descends from
\* and the moves that lead to it from there
Kept(mem, states, by, origin, paths) ==
    [k \in 1..Len(states) |->
        [state |-> states[k], was |-> mem[states[k].board], by |-> by,
         origin |-> origin, path |-> paths[k]]]

AliasPairs ==
    { << <<1, 2, 0, 3>>, <<1, 2, 3, 0>> >>,
      << <<0, 1, 3, 2>>, <<1, 2, 3, 0>> >>,
      <<FifteenAway, SolvedBoard(3)>> }

AliasInit ==
    /\ size \in {2, 3}
    /\ \E pair \in AliasPairs :
           /\ Len(pair[1]) = size * size
           /\ initialBoard = pair[1]
           /\ targetBoard = pair[2]
    /\ goalPositions = GoalPositionsOf(targetBoard)
    /\ cur = boardToCompactState(targetBoard)
    /\ depth = 0
    /\ SolverIdle
    /\ GameIdle

\* solve(initialBoard, targetBoard): start and goal
AliasSolve ==
    /\ heap.calls = 0
    /\ LET first == ConvertOn(heap.mem, 1)
           second == ConvertOn(first.mem, 2)
       IN  heap' = [mem |-> second.mem,
                    held |-> Kept(second.mem, <<first.state>>, "solve", 1, <<(<<>>)>>)
                             \o Kept(second.mem, <<second.state>>, "solve", 2, <<(<<>>)>>),
                    calls |-> 1]
    /\ UNCHANGED <<size, initialBoard, targetBoard, goalPositions, walkVars,
                   solveVars, pqVars, walked, typed, validated, converted,
                   gameVars>>

\* getNeighborsOptimized(state) on a state some call has returned
AliasNeighbors ==
    /\ heap.calls > 0
    /\ heap.calls < MaxAlias
    /\ \E k \in 1..Len(heap.held) :
           LET of == heap.held[k]
               made == NeighborsOn(heap.mem, of.state)
           IN  heap' = [mem |-> made.mem,
                        held |-> heap.held \o
                                 Kept(made.mem, made.states, "neighbors", of.origin,
                                      [n \in 1..Len(made.states) |->
                                          Append(of.path, made.states[n].lastMove)]),
                        calls |-> heap.calls + 1]
    /\ UNCHANGED <<size, initialBoard, targetBoard, goalPositions, walkVars,
                   solveVars, pqVars, walked, typed, validated, converted,
                   gameVars>>

\* applyMoves(initialBoard, moves) with the moves that lead to a state
\* reached from start
AliasApply ==
    /\ heap.calls > 0
    /\ heap.calls < MaxAlias
    /\ \E k \in 1..Len(heap.held) :
           /\ heap.held[k].origin = 1
           /\ heap.held[k].by = "neighbors"
           /\ LET moves == heap.held[k].path
                  made == ApplyOn(heap.mem, 1, moves)
              IN  heap' = [mem |-> made.mem,
                           held |-> heap.held \o
                                    Kept(made.mem, made.states, "apply", 1,
                                         [n \in 1..Len(made.states) |->
                                             SubSeq(moves, 1, n - 1)]),
                           calls |-> heap.calls + 1]
    /\ UNCHANGED <<size, initialBoard, targetBoard, goalPositions, walkVars,
                   solveVars, pqVars, walked, typed, validated, converted,
                   gameVars>>

AliasNext == AliasSolve \/ AliasNeighbors \/ AliasApply

SpecAlias == AliasInit /\ [][AliasNext]_vars

\* C35: the arrays given to solve and applyMoves keep their cells; every
\* state a call has returned has a board array of its own, no other
\* returned state's and neither argument's, and the board still has the
\* cells it had at the return, the zero at emptyIndex, whatever calls were
\* made after it, on it or on other states
C35_CopyOnTransition ==
    /\ heap.mem[1] = initialBoard
    /\ heap.mem[2] = targetBoard
    /\ \A k \in 1..Len(heap.held) :
           LET kept == heap.held[k]
           IN  /\ heap.mem[kept.state.board] = kept.was
               /\ At(heap.mem[kept.state.board], kept.state.emptyIndex) = 0
               /\ kept.state.board \notin {1, 2}
               /\ \A j \in 1..Len(heap.held) :
                      j # k => heap.held[j].state.board # kept.state.board

\* a state two moves from start was returned by getNeighborsOptimized, so
\* that a returned state was itself moved from, and applyMoves has replayed
\* moves on initialBoard
C35_Witness ==
    /\ \E k \in 1..Len(heap.held) :
           /\ heap.held[k].by = "neighbors"
           /\ Len(heap.held[k].path) = 2
    /\ \E k \in 1..Len(heap.held) :
           /\ heap.held[k].by = "apply"
           /\ heap.held[k].path # <<>>
           /\ heap.held[k].was # initialBoard

\* C36: the page's board is always a permutation of 0..15 with one zero,
\* emptyPos is the cell of that zero, and isSolvable accepts the flat array
\* getBoardArray hands to the solver, after the constructor's shuffle and
\* whatever slides, shuffles and resets follow
C36_InteractiveBoard ==
    /\ puzzle.size = 4
    /\ IsValidBoard(getBoardArray(puzzle), 4)
    /\ puzzle.emptyPos.row \in 0..3
    /\ puzzle.emptyPos.col \in 0..3
    /\ puzzle.board[puzzle.emptyPos.row + 1][puzzle.emptyPos.col + 1] = 0
    /\ isSolvable(getBoardArray(puzzle))

\* Reset was pressed and its timer has not fired, the player has since
\* slid tiles, and the board is away from the solved one with the blank
\* off the last row and the last column
C36_Witness ==
    /\ timers > 0
    /\ puzzle.moveCount >= 2
    /\ ~isSolved(puzzle)
    /\ puzzle.emptyPos.row < 3
    /\ puzzle.emptyPos.col < 3
    /\ isSolvable(getBoardArray(puzzle))

====
